---- MODULE Spec2Model ----
(***************************************************************************)
(* Model of package env (Showmax/env): loading environment variables into  *)
(* a nested Go structure.  A Go string is a sequence of one-character      *)
(* strings; a reflect.Type is a tuple (<<"int">>, <<"ptr", T>>,            *)
(* <<"slice", T>>, <<"map", K, V>>, <<"struct", name>>, <<"named", name>>);*)
(* a Go value is an Int, a BOOLEAN, a string, <<>> or <<v>> for a nil or   *)
(* non-nil pointer, a record [nil, items] for a slice, [nil, m] for a map  *)
(* and a tuple of field values for a struct.  An error is <<>> (nil) or    *)
(* <<message, arguments, wrapped error>>.                                  *)
(***************************************************************************)
EXTENDS Integers, Sequences, FiniteSets, TLC

VARIABLES env, parsers, root, dst, pc, ret, pre, nLoads, str, out, calls

vars == <<env, parsers, root, dst, pc, ret, pre, nLoads, str, out, calls>>

(* ------------------------------ bounds --------------------------------- *)
\* Most variables the environment holds at one time.
MaxEnv == 3
\* Most Load calls on one destination.
MaxLoads == 2
\* Deepest pointer chain among the destination's fields.
MaxPtrDepth == 2
\* Most AddParser calls on the loader.
MaxAdded == 1
\* The longest list string of any characters given to parseAndSetSlice; the
\* lists whose rendering is given to it have at most MaxLen + 1 elements and
\* characters in all.
MaxLen == 4

(* ------------------------------ strings -------------------------------- *)
NUL == "NUL"
BS == "\\"
QUOTE == "\""
COMMA == ","

StartsWith(s, p) == Len(p) <= Len(s) /\ SubSeq(s, 1, Len(p)) = p

Drop(s, n) == SubSeq(s, n + 1, Len(s))

UpperChars == {"A", "B", "C", "D", "E", "F", "G", "H", "I", "J", "K", "L", "M",
               "N", "O", "P", "Q", "R", "S", "T", "U", "V", "W", "X", "Y", "Z"}

\* unicode.IsSpace, on the characters the model uses
IsSpace(c) == c \in {" ", "\t", "\n"}

(* ------------------------------ errors --------------------------------- *)
NoErr == <<>>

\* errors.New(msg), fmt.Errorf(msg, args...) and fmt.Errorf(msg + ": %w", args..., inner)
Err(msg, args, inner) == <<msg, args, inner>>

errInvalidDst == Err("dst must be struct or struct pointer", <<>>, NoErr)
errUnexportedDst == Err("cannot write unexported field", <<>>, NoErr)
errMissing == Err("variable missing", <<>>, NoErr)
errSyntax == Err("invalid syntax", <<>>, NoErr)

(* ------------------------------ parsers -------------------------------- *)
DigitChars == <<"0", "1", "2", "3", "4", "5", "6", "7", "8", "9">>

IsDigit(c) == \E i \in 1..10 : DigitChars[i] = c

DigitVal(c) == (CHOOSE i \in 1..10 : DigitChars[i] = c) - 1

RECURSIVE DigitsVal(_)
DigitsVal(s) ==
  IF s = <<>> THEN 0
  ELSE 10 * DigitsVal(SubSeq(s, 1, Len(s) - 1)) + DigitVal(s[Len(s)])

\* strconv.Atoi: an optional sign and one or more decimal digits (the strings of
\* the model are far too short to leave the range of int)
parseInt(s) ==
  LET signed == Len(s) > 0 /\ s[1] \in {"+", "-"}
      body == IF signed THEN Tail(s) ELSE s
  IN IF body = <<>> \/ \E i \in 1..Len(body) : ~IsDigit(body[i])
       THEN [v |-> 0, err |-> errSyntax]
       ELSE [v |-> IF signed /\ s[1] = "-" THEN 0 - DigitsVal(body) ELSE DigitsVal(body),
             err |-> NoErr]

TrueStrings == {<<"1">>, <<"t">>, <<"T">>, <<"T", "R", "U", "E">>,
                <<"t", "r", "u", "e">>, <<"T", "r", "u", "e">>}

FalseStrings == {<<"0">>, <<"f">>, <<"F">>, <<"F", "A", "L", "S", "E">>,
                 <<"f", "a", "l", "s", "e">>, <<"F", "a", "l", "s", "e">>}

\* strconv.ParseBool
parseBool(s) ==
  IF s \in TrueStrings THEN [v |-> TRUE, err |-> NoErr]
  ELSE IF s \in FalseStrings THEN [v |-> FALSE, err |-> NoErr]
  ELSE [v |-> FALSE, err |-> errSyntax]

parseString(s) == [v |-> s, err |-> NoErr]

\* url.Parse, reduced to the split at the scheme: "s:rest" has scheme s, a string
\* with no colon is a path, and a string that starts with a colon has no scheme
\* (the value is the struct url.URL{Scheme, Opaque, Path})
parseURL(s) ==
  LET colons == {i \in 1..Len(s) : s[i] = ":"}
      c == CHOOSE i \in colons : \A j \in colons : i <= j
  IN IF colons = {} THEN [v |-> <<<<>>, <<>>, s>>, err |-> NoErr]
     ELSE IF c = 1
       THEN [v |-> <<<<>>, <<>>, <<>>>>, err |-> Err("missing protocol scheme", <<>>, NoErr)]
       ELSE [v |-> <<SubSeq(s, 1, c - 1), Drop(s, c), <<>>>>, err |-> NoErr]

(* ------------------------------- types --------------------------------- *)
tBool == <<"bool">>
tInt == <<"int">>
tString == <<"string">>
Ptr(T) == <<"ptr", T>>
SliceOf(T) == <<"slice", T>>
MapOf(K, V) == <<"map", K, V>>
Struct(n) == <<"struct", n>>
Named(n) == <<"named", n>>

RECURSIVE PtrN(_, _)
PtrN(n, T) == IF n = 0 THEN T ELSE Ptr(PtrN(n - 1, T))

\* reflect.StructField: Name, Tag.Lookup("env"), Anonymous, Type
Field(name, hasTag, tag, anonymous, type) ==
  [name |-> name, hasTag |-> hasTag, tag |-> tag, anonymous |-> anonymous, type |-> type]

\* The struct types of the tests and examples, with one-letter annotations.
\* tu says whether the type (tu = "value") or only a pointer to it (tu = "ptr")
\* has the method UnmarshalText.
StructDefs ==
  [ Foo |-> [tu |-> "none", fields |-> <<
        Field(<<"F", "o", "o">>, TRUE, <<"F">>, FALSE, tString) >>],
    URL |-> [tu |-> "none", fields |-> <<
        Field(<<"S", "c", "h", "e", "m", "e">>, FALSE, <<>>, FALSE, tString),
        Field(<<"O", "p", "a", "q", "u", "e">>, FALSE, <<>>, FALSE, tString),
        Field(<<"P", "a", "t", "h">>, FALSE, <<>>, FALSE, tString) >>],
    Config |-> [tu |-> "none", fields |-> <<
        Field(<<"F", "o", "o">>, FALSE, <<>>, TRUE, Struct("Foo")),
        Field(<<"I", "n", "n", "e", "r">>, TRUE, <<"I">>, FALSE, Struct("Foo")),
        Field(<<"I", "n", "t">>, TRUE, <<"N">>, FALSE, tInt),
        Field(<<"F", "o", "o", "b", "a", "r">>, FALSE, <<>>, FALSE, tString),
        Field(<<"b", "a", "d", "C", "o", "n", "f", "i", "g">>, FALSE, <<>>, FALSE, tInt) >>],
    BadConfig |-> [tu |-> "none", fields |-> <<
        Field(<<"I", "n", "t">>, TRUE, <<"N">>, FALSE, tInt),
        Field(<<"f", "o", "o">>, TRUE, <<"F">>, FALSE, Struct("Foo")),
        Field(<<"I", "n", "t", "S", "l", "i", "c", "e">>, TRUE, <<"L">>, FALSE, Ptr(SliceOf(tInt))),
        Field(<<"I", "n", "n", "e", "r">>, TRUE, <<"I">>, FALSE, Struct("Foo")) >>],
    MapConfig |-> [tu |-> "none", fields |-> <<
        Field(<<"M", "a", "p">>, TRUE, <<"M">>, FALSE, MapOf(tInt, tString)),
        Field(<<"I", "n", "t">>, TRUE, <<"N">>, FALSE, tInt) >>],
    StrMapConfig |-> [tu |-> "none", fields |-> <<
        Field(<<"M", "a", "p">>, TRUE, <<"S">>, FALSE, Ptr(MapOf(tString, tInt))) >>],
    PtrConfig |-> [tu |-> "none", fields |->
        [n \in 1..MaxPtrDepth |->
           Field(<<"P", DigitChars[n + 1]>>, TRUE, <<"D", DigitChars[n + 1]>>, FALSE, PtrN(n, tInt))]],
    RegConfig |-> [tu |-> "none", fields |-> <<
        Field(<<"U", "R", "L">>, TRUE, <<"U">>, FALSE, Struct("URL")),
        Field(<<"I", "n", "n", "e", "r">>, TRUE, <<"I">>, FALSE, Struct("Foo")),
        Field(<<"S", "l", "i", "c", "e">>, TRUE, <<"L">>, FALSE, SliceOf(tInt)) >>],
    SpeedConfig |-> [tu |-> "none", fields |-> <<
        Field(<<"S", "p", "e", "e", "d">>, TRUE, <<"S">>, FALSE, Named("speed")),
        Field(<<"M", "a", "p">>, TRUE, <<"M">>, FALSE, MapOf(tString, tInt)) >>],
    BindConfig |-> [tu |-> "none", fields |-> <<
        Field(<<"S", "p", "e", "e", "d">>, TRUE, <<"S">>, FALSE, Named("speed")),
        Field(<<"I", "n", "t", "s">>, TRUE, <<"L">>, FALSE, SliceOf(tInt)),
        Field(<<"P", "t", "r">>, TRUE, <<"Q">>, FALSE, Ptr(Struct("Foo"))) >>],
    BulkConfig |-> [tu |-> "none", fields |-> <<
        Field(<<"I", "n", "t", "s">>, TRUE, <<"L">>, FALSE, SliceOf(tInt)),
        Field(<<"M", "a", "p">>, TRUE, <<"M">>, FALSE, MapOf(tString, tInt)) >>],
    CustomRec |-> [tu |-> "ptr", fields |-> <<
        Field(<<"F">>, TRUE, <<"F">>, FALSE, tString) >>],
    CapConfig |-> [tu |-> "none", fields |-> <<
        Field(<<"M", "a", "p">>, TRUE, <<"M">>, FALSE, Named("customMap")),
        Field(<<"L", "i", "s", "t">>, TRUE, <<"L">>, FALSE, Named("customList")),
        Field(<<"R", "e", "c">>, TRUE, <<"R">>, FALSE, Struct("CustomRec")) >>],
    hidden |-> [tu |-> "none", fields |-> <<
        Field(<<"H">>, TRUE, <<"H">>, FALSE, tString) >>],
    HiddenConfig |-> [tu |-> "none", fields |-> <<
        Field(<<"I", "n", "t">>, TRUE, <<"N">>, FALSE, tInt),
        Field(<<"f", "o", "o">>, TRUE, <<"F">>, FALSE, Struct("Foo")),
        Field(<<"h", "i", "d", "d", "e", "n">>, FALSE, <<>>, TRUE, Struct("hidden")),
        Field(<<"S", "l", "i", "c", "e">>, TRUE, <<"L">>, FALSE, SliceOf(tString)) >>] ]

\* The defined non-struct types: speed (example_test.go) is a number with
\* UnmarshalText on *speed; customMap (TestMapWithCustomUnmarshaler) is a map
\* with UnmarshalText on *customMap, which hands the text to json.Unmarshal;
\* customList is a slice, and CustomRec above a struct, declared the same way.
NamedDefs ==
  [ speed |-> [under |-> tInt, tu |-> "ptr"],
    customMap |-> [under |-> MapOf(tString, tString), tu |-> "ptr"],
    customList |-> [under |-> SliceOf(tString), tu |-> "ptr"] ]

RECURSIVE Kind(_)
\* reflect.Type.Kind
Kind(T) == IF T[1] = "named" THEN Kind(NamedDefs[T[2]].under) ELSE T[1]

Underlying(T) == IF T[1] = "named" THEN NamedDefs[T[2]].under ELSE T

Fields(T) == StructDefs[T[2]].fields

\* How the type itself declares UnmarshalText: "value", "ptr" or "none".
DeclaredTU(T) ==
  IF T[1] = "named" THEN NamedDefs[T[2]].tu
  ELSE IF T[1] = "struct" THEN StructDefs[T[2]].tu
  ELSE "none"

\* The method set of T has UnmarshalText: T declares it on the value, or T is
\* *U and U declares it on the value or on the pointer.
Implements(T) ==
  \/ DeclaredTU(T) = "value"
  \/ T[1] = "ptr" /\ DeclaredTU(T[2]) \in {"value", "ptr"}

RECURSIVE ZeroValue(_)
\* reflect.Zero / the value of a declared variable
ZeroValue(T) ==
  CASE Kind(T) = "bool" -> FALSE
    [] Kind(T) = "int" -> 0
    [] Kind(T) = "string" -> <<>>
    [] Kind(T) = "ptr" -> <<>>
    [] Kind(T) = "slice" -> [nil |-> TRUE, items |-> <<>>]
    [] Kind(T) = "map" -> [nil |-> TRUE, m |-> <<>>]
    [] Kind(T) = "struct" -> [i \in 1..Len(Fields(T)) |-> ZeroValue(Fields(T)[i].type)]

(* ------------------------------ registry ------------------------------- *)
RECURSIVE wholeParser(_, _)
\* A parser a caller registers with AddParser: it takes the whole string as one
\* value of the type (no splitting at commas, no scanning of other variables).
wholeParser(T, s) ==
  CASE Kind(T) = "bool" -> parseBool(s)
    [] Kind(T) = "int" -> parseInt(s)
    [] Kind(T) = "string" -> parseString(s)
    [] Kind(T) = "ptr" ->
         LET r == wholeParser(Underlying(T)[2], s) IN [v |-> <<r.v>>, err |-> r.err]
    [] Kind(T) = "slice" ->
         LET r == wholeParser(Underlying(T)[2], s)
         IN [v |-> [nil |-> FALSE, items |-> <<r.v>>], err |-> r.err]
    [] Kind(T) = "map" ->
         LET r == wholeParser(Underlying(T)[3], s)
         IN [v |-> [nil |-> FALSE, m |-> (ZeroValue(Underlying(T)[2]) :> r.v)], err |-> r.err]
    [] Kind(T) = "struct" ->
         LET rs == [i \in 1..Len(Fields(T)) |-> wholeParser(Fields(T)[i].type, s)]
             bad == {i \in 1..Len(Fields(T)) : rs[i].err # NoErr}
         IN [v |-> [i \in 1..Len(Fields(T)) |-> rs[i].v],
             err |-> IF bad = {} THEN NoErr ELSE rs[CHOOSE i \in bad : TRUE].err]

\* Calling the parseFunc f registered for T on s
ApplyParser(f, T, s) ==
  CASE f = "parseBool" -> parseBool(s)
    [] f = "parseInt" -> parseInt(s)
    [] f = "parseString" -> parseString(s)
    [] f = "parseURL" -> parseURL(s)
    [] f = "whole" -> wholeParser(T, s)

\* The parsers of the model's types (the numeric types of other widths and the
\* other library types are registered the same way)
defaultParsers ==
  (tBool :> "parseBool") @@ (tInt :> "parseInt") @@ (tString :> "parseString")
    @@ (Struct("URL") :> "parseURL")

hasParser(P, T) == T \in DOMAIN P

(* --------------------------- text unmarshaler --------------------------- *)
\* (*speed).UnmarshalText with a non-nil receiver: a number and a three-letter unit
\* (the value is kept in 1/100000 kph; the number is a decimal integer)
speedUnmarshalText(s) ==
  LET n == Len(s)
      suffix == SubSeq(s, n - 2, n)
      num == parseInt(SubSeq(s, 1, n - 3))
      units == {<<"k", "p", "h">>, <<"m", "p", "h">>, <<"k", "t", "s">>}
      mulp == IF suffix = <<"k", "p", "h">> THEN 100000
              ELSE IF suffix = <<"m", "p", "h">> THEN 160934 ELSE 185200
  IN IF n < 4 THEN [v |-> 0, err |-> Err("input string is too short (%d)", <<n>>, NoErr)]
     ELSE IF num.err # NoErr
       THEN [v |-> 0, err |-> Err("not a valid float number %s", <<SubSeq(s, 1, n - 3)>>, NoErr)]
     ELSE IF suffix \notin units
       THEN [v |-> 0, err |-> Err("unrecognized unit %s", <<suffix>>, NoErr)]
     ELSE [v |-> num.v * mulp, err |-> NoErr]

\* Only the value's own method set is asked, never that of its address
textUnmarshaler_valueOnly(T, canAddr) == IF Implements(T) THEN "self" ELSE "none"

\* textUnmarshaler(rv): "self" when rv's own type has UnmarshalText, "addr" when rv
\* is addressable and the pointer to its type has it, "none" otherwise
textUnmarshaler(T, canAddr) ==
  IF Implements(T) THEN "self"
  ELSE IF canAddr /\ Implements(Ptr(T)) THEN "addr"
  ELSE "none"

\* A JSON string with no escape in it: the text between its quotes
jsonString(s) ==
  [ok |-> /\ Len(s) >= 2 /\ s[1] = QUOTE /\ s[Len(s)] = QUOTE
          /\ \A i \in 2..(Len(s) - 1) : s[i] \notin {QUOTE, BS},
   v |-> SubSeq(s, 2, Len(s) - 1)]

\* The place of the first c in s, 0 when there is none
IndexOf(s, c) ==
  IF \E i \in 1..Len(s) : s[i] = c
    THEN CHOOSE i \in 1..Len(s) : s[i] = c /\ \A j \in 1..(i - 1) : s[j] # c
    ELSE 0

RECURSIVE splitAt(_, _)
\* s cut at every c
splitAt(s, c) ==
  IF IndexOf(s, c) = 0 THEN <<s>>
  ELSE <<SubSeq(s, 1, IndexOf(s, c) - 1)>> \o splitAt(SubSeq(s, IndexOf(s, c) + 1, Len(s)), c)

\* json.Unmarshal of text with no white space that is an object of at most one
\* member whose value is a string: m, the members; any other text of the
\* model's environments is no such JSON value
jsonObject(s) ==
  LET inner == SubSeq(s, 2, Len(s) - 1)
      i == IndexOf(inner, ":")
      k == jsonString(SubSeq(inner, 1, i - 1))
      w == jsonString(SubSeq(inner, i + 1, Len(inner)))
  IN IF Len(s) < 2 \/ s[1] # "{" \/ s[Len(s)] # "}" THEN [ok |-> FALSE, m |-> <<>>]
     ELSE IF inner = <<>> THEN [ok |-> TRUE, m |-> <<>>]
     ELSE IF i = 0 \/ ~k.ok \/ ~w.ok THEN [ok |-> FALSE, m |-> <<>>]
     ELSE [ok |-> TRUE, m |-> (k.v :> w.v)]

\* json.Unmarshal of text with no white space that is an array of strings
\* without commas in them
jsonArray(s) ==
  LET inner == SubSeq(s, 2, Len(s) - 1)
      parts == splitAt(inner, COMMA)
  IN IF Len(s) < 2 \/ s[1] # "[" \/ s[Len(s)] # "]" THEN [ok |-> FALSE, items |-> <<>>]
     ELSE IF inner = <<>> THEN [ok |-> TRUE, items |-> <<>>]
     ELSE IF \E j \in 1..Len(parts) : ~jsonString(parts[j]).ok
       THEN [ok |-> FALSE, items |-> <<>>]
     ELSE [ok |-> TRUE, items |-> [j \in 1..Len(parts) |-> jsonString(parts[j]).v]]

errJSON == Err("json: cannot unmarshal", <<>>, NoErr)

\* (*customMap).UnmarshalText: json.Unmarshal(text, (*map[string]string)(m)) adds
\* the members to the map, which it makes when it is nil
customMapUnmarshalText(v, s) ==
  IF jsonObject(s).ok
    THEN [v |-> [nil |-> FALSE, m |-> jsonObject(s).m @@ v.m], err |-> NoErr]
    ELSE [v |-> v, err |-> errJSON]

\* The same for a slice: json.Unmarshal replaces the items
customListUnmarshalText(v, s) ==
  IF jsonArray(s).ok
    THEN [v |-> [nil |-> FALSE, items |-> jsonArray(s).items], err |-> NoErr]
    ELSE [v |-> v, err |-> errJSON]

\* The same for the struct CustomRec: json.Unmarshal sets the field F from the
\* member of that name and leaves it alone when there is none
customRecUnmarshalText(v, s) ==
  IF jsonObject(s).ok
    THEN [v |-> IF <<"F">> \in DOMAIN jsonObject(s).m
                  THEN <<jsonObject(s).m[<<"F">>]>> ELSE v,
          err |-> NoErr]
    ELSE [v |-> v, err |-> errJSON]

\* The UnmarshalText that *T declares, on a non-nil receiver pointing to v
unmarshalInto(T, v, s) ==
  CASE T = Named("customMap") -> customMapUnmarshalText(v, s)
    [] T = Named("customList") -> customListUnmarshalText(v, s)
    [] T = Struct("CustomRec") -> customRecUnmarshalText(v, s)
    [] OTHER -> speedUnmarshalText(s)

\* tu.UnmarshalText([]byte(s)) on the value v of type T; every UnmarshalText of
\* the model has a pointer receiver and refuses a nil one
UnmarshalText(tu, T, v, s) ==
  IF tu = "self" /\ Kind(T) = "ptr" /\ v = <<>>
    THEN [v |-> v, err |-> Err("dst is nil pointer", <<>>, NoErr)]
    ELSE LET r == unmarshalInto(IF tu = "self" THEN T[2] ELSE T,
                                IF tu = "self" THEN v[1] ELSE v, s)
         IN [v |-> IF r.err # NoErr THEN v ELSE IF tu = "self" THEN <<r.v>> ELSE r.v,
             err |-> r.err]

(* ------------------------------- follow -------------------------------- *)
RECURSIVE FollowType(_)
\* The type of the value follow returns
FollowType(T) == IF Kind(T) = "ptr" THEN FollowType(Underlying(T)[2]) ELSE T

RECURSIVE FollowVal(_, _)
\* The value follow returns: the end of the chain, new and zero when a level was nil
FollowVal(T, v) ==
  IF Kind(T) = "ptr"
    THEN IF v = <<>> THEN ZeroValue(FollowType(T)) ELSE FollowVal(Underlying(T)[2], v[1])
    ELSE v

\* The levels follow went through are left nil
Rewrap_nil(T, w) == IF Kind(T) = "ptr" THEN <<>> ELSE w

RECURSIVE Rewrap(_, _)
\* The value of type T once follow has run and the end of the chain holds w:
\* follow has set every nil level to a new pointer
Rewrap(T, w) == IF Kind(T) = "ptr" THEN <<Rewrap(Underlying(T)[2], w)>> ELSE w

(* ------------------------------- slices -------------------------------- *)
RECURSIVE tokenizeFrom(_, _, _, _, _, _)
\* The loop of tokenizeSliceString from rune i on, and what follows the loop
tokenizeFrom(s, i, q, esc, sb, fields) ==
  IF i > Len(s)
    THEN LET all == IF Len(sb) > 0 THEN Append(fields, sb) ELSE fields
         IN IF q THEN [fields |-> <<>>, err |-> Err("unbalanced quotes", <<>>, NoErr)]
            ELSE IF esc THEN [fields |-> <<>>, err |-> Err("trailing \\", <<>>, NoErr)]
            ELSE [fields |-> all, err |-> NoErr]
    ELSE LET r == s[i]
         IN IF r = COMMA /\ ~esc /\ ~q
              THEN IF Len(sb) = 0
                     THEN [fields |-> <<>>,
                           err |-> Err("empty fields must be quoted", <<>>, NoErr)]
                     ELSE tokenizeFrom(s, i + 1, q, esc, <<>>, Append(fields, sb))
              ELSE IF r = QUOTE /\ ~esc
                     THEN tokenizeFrom(s, i + 1, ~q, esc, Append(sb, r), fields)
              ELSE IF r = BS /\ ~esc
                     THEN tokenizeFrom(s, i + 1, q, TRUE, Append(sb, r), fields)
              ELSE IF r = NUL
                     THEN [fields |-> <<>>, err |-> Err("NUL byte in input", <<>>, NoErr)]
              ELSE tokenizeFrom(s, i + 1, q, FALSE, Append(sb, r), fields)

\* A field of nothing but white space refused like an empty one
tokenizeSliceString_strict(s) ==
  LET r == tokenizeFrom(s, 1, FALSE, FALSE, <<>>, <<>>)
  IN IF r.err = NoErr
          /\ \E i \in 1..Len(r.fields) : \A j \in 1..Len(r.fields[i]) : IsSpace(r.fields[i][j])
       THEN [fields |-> <<>>, err |-> Err("empty fields must be quoted", <<>>, NoErr)]
       ELSE r

\* A field ended at every comma, quoted or escaped or not
tokenizeSliceString_everyComma(s) ==
  LET r == tokenizeFrom(s, 1, FALSE, FALSE, <<>>, <<>>)
  IN IF r.err # NoErr THEN r
     ELSE [fields |-> SelectSeq(splitAt(s, COMMA), LAMBDA f : f # <<>>), err |-> NoErr]

\* NUL taken for an ordinary character
tokenizeSliceString_anyChar(s) ==
  tokenizeFrom([i \in 1..Len(s) |-> IF s[i] = NUL THEN "a" ELSE s[i]],
               1, FALSE, FALSE, <<>>, <<>>)

tokenizeSliceString(s) == tokenizeFrom(s, 1, FALSE, FALSE, <<>>, <<>>)

RECURSIVE unescapeFrom(_, _, _, _)
\* The last loop of unescapeSliceField, indices from 1: runes[i] with i past the
\* end of runes is Go's index-out-of-range panic
unescapeFrom(runes, i, end, sb) ==
  IF i > end THEN [s |-> sb, panic |-> FALSE]
  ELSE IF i > Len(runes) THEN [s |-> sb, panic |-> TRUE]
  ELSE IF runes[i] = BS
    THEN IF i + 1 > Len(runes) THEN [s |-> sb, panic |-> TRUE]
         ELSE unescapeFrom(runes, i + 2, end, Append(sb, runes[i + 1]))
  ELSE IF runes[i] # QUOTE THEN unescapeFrom(runes, i + 1, end, Append(sb, runes[i]))
  ELSE unescapeFrom(runes, i + 1, end, sb)

unescapeSliceField(f) ==
  LET nonSpace == {i \in 1..Len(f) : ~IsSpace(f[i])}
      last == IF nonSpace = {} THEN 0 ELSE CHOOSE i \in nonSpace : \A j \in nonSpace : j <= i
      end == IF last > 0 /\ f[last] = BS THEN last + 1 ELSE last
      start == IF nonSpace = {} THEN Len(f) + 1
               ELSE CHOOSE i \in nonSpace : \A j \in nonSpace : i <= j
  IN unescapeFrom(f, start, end, <<>>)

(* ---------------------------- value binding ---------------------------- *)
\* What a call that writes through a reflect.Value leaves: v, the value now
\* at the place; err, the error returned; panic, whether the call panicked;
\* via, the branch of parseAndSetValue or loadVar that handled the place.
Bound(v, err, via) == [v |-> v, err |-> err, panic |-> FALSE, via |-> via]

Panicked(v) == [v |-> v, err |-> NoErr, panic |-> TRUE, via |-> "panic"]

RECURSIVE parseAndSetValue(_, _, _, _)
RECURSIVE setItems(_, _, _, _, _)

\* One turn of the second loop of parseAndSetSlice: r is what parseAndSetValue
\* made of item i
setItem(P, fields, elemT, i, sl, r) ==
  IF r.panic THEN Panicked(<<>>)
  ELSE IF r.err # NoErr THEN Bound(<<>>, Err("item #%d: %w", <<i - 1>>, r.err), "slice")
  ELSE setItems(P, fields, elemT, i + 1, Append(sl, r.v))

\* The second loop of parseAndSetSlice from item i on (items counted from 1 here;
\* the message counts them from 0), then rv.Set(sl)
setItems(P, fields, elemT, i, sl) ==
  IF i > Len(fields) THEN Bound([nil |-> FALSE, items |-> sl], NoErr, "slice")
  ELSE setItem(P, fields, elemT, i, sl,
               parseAndSetValue(P, fields[i], elemT, ZeroValue(elemT)))

\* What parseAndSetSlice returns once the loop gave r: rv is set only when every
\* item parsed
sliceSet(v, r) ==
  IF r.panic THEN Panicked(v)
  ELSE IF r.err # NoErr THEN Bound(v, r.err, "slice")
  ELSE r

\* parseAndSetSlice after tokenizeSliceString gave tok and unescapeSliceField
\* gave un for each of its fields
sliceFields(P, T, v, tok, un) ==
  IF tok.err # NoErr THEN Bound(v, tok.err, "slice")
  ELSE IF \E i \in 1..Len(un) : un[i].panic THEN Panicked(v)
  ELSE sliceSet(v, setItems(P, [i \in 1..Len(un) |-> un[i].s], Underlying(T)[2], 1, <<>>))

\* The fields left as the tokenizer gave them
unescapeFields_raw(fields) == [i \in 1..Len(fields) |-> [s |-> fields[i], panic |-> FALSE]]

\* The first loop of parseAndSetSlice: fields[i] = unescapeSliceField(f)
unescapeFields(fields) == [i \in 1..Len(fields) |-> unescapeSliceField(fields[i])]

sliceTokens(P, T, v, tok) == sliceFields(P, T, v, tok, unescapeFields(tok.fields))

parseAndSetSlice(P, s, T, v) == sliceTokens(P, T, v, tokenizeSliceString(s))

\* return tu.UnmarshalText([]byte(s))
unmarshalled(r) == Bound(r.v, r.err, "unmarshal")

\* v, err := f(s); rv.Set(reflect.ValueOf(v)) when err == nil; return err
parsed(v, r) == Bound(IF r.err = NoErr THEN r.v ELSE v, r.err, "parser")

\* The parser map consulted before the text unmarshaller
parseAndSetValue_parsersFirst(P, s, T, v) ==
  IF hasParser(P, T) THEN parsed(v, ApplyParser(P[T], T, s))
  ELSE IF textUnmarshaler(T, TRUE) # "none"
    THEN unmarshalled(UnmarshalText(textUnmarshaler(T, TRUE), T, v, s))
  ELSE IF Kind(T) = "slice" THEN parseAndSetSlice(P, s, T, v)
  ELSE Bound(v, Err("parsing of %v not supported", <<T>>, NoErr), "unsupported")

parseAndSetValue(P, s, T, v) ==
  IF textUnmarshaler(T, TRUE) # "none"
    THEN unmarshalled(UnmarshalText(textUnmarshaler(T, TRUE), T, v, s))
  ELSE IF hasParser(P, T) THEN parsed(v, ApplyParser(P[T], T, s))
  ELSE IF Kind(T) = "slice" THEN parseAndSetSlice(P, s, T, v)
  ELSE Bound(v, Err("parsing of %v not supported", <<T>>, NoErr), "unsupported")

(* --------------------------------- maps -------------------------------- *)
\* Only the variable named exactly prefix
varsPrefixed_exact(e, prefix) ==
  [k \in {n \in DOMAIN e : n = prefix} |-> e[k]]

\* varsPrefixed: the variables of the environment e whose name starts with prefix
varsPrefixed(e, prefix) ==
  [k \in {n \in DOMAIN e : StartsWith(n, prefix)} |-> e[k]]

RECURSIVE mapEntries(_, _, _, _, _, _, _)

\* One turn of the loop of parseAndSetMap: key and val are what parseAndSetValue
\* made of keyStr and valStr
mapEntry(P, mapVars, names, i, mapName, T, dstMap, keyStr, valStr, key, val) ==
  IF key.panic THEN Panicked(<<>>)
  ELSE IF key.err # NoErr
    THEN Bound(<<>>, Err("parsing string %q as the key (%s) failed: %w",
                         <<keyStr, Underlying(T)[2]>>, key.err), "map")
  ELSE IF val.panic THEN Panicked(<<>>)
  ELSE IF val.err # NoErr
    THEN Bound(<<>>, Err("parsing string %q as the value (%s) failed: %w",
                         <<valStr, Underlying(T)[3]>>, val.err), "map")
  ELSE mapEntries(P, mapVars, names, i + 1, mapName, T,
                  (Rewrap(Underlying(T)[2], key.v) :> Rewrap(Underlying(T)[3], val.v))
                    @@ dstMap)

\* key := reflect.New(kt).Elem(), parsed through follow(key); the same for val
newParsed(P, s, T) == parseAndSetValue(P, s, FollowType(T), ZeroValue(FollowType(T)))

\* The loop of parseAndSetMap over names (the order of this run of the range over
\* the Go map) from entry i on, then rv.Set(dstMap)
mapEntries(P, mapVars, names, i, mapName, T, dstMap) ==
  IF i > Len(names) THEN Bound([nil |-> FALSE, m |-> dstMap], NoErr, "map")
  ELSE mapEntry(P, mapVars, names, i, mapName, T, dstMap,
                Drop(names[i], Len(mapName)), mapVars[names[i]],
                newParsed(P, Drop(names[i], Len(mapName)), Underlying(T)[2]),
                newParsed(P, mapVars[names[i]], Underlying(T)[3]))

\* What parseAndSetMap returns once the loop gave r: rv is set only when every
\* entry parsed
mapSet(v, r) ==
  IF r.panic THEN Panicked(v)
  ELSE IF r.err # NoErr THEN Bound(v, r.err, "map")
  ELSE r

\* The range over mapVars in the order the names have in ord
mapRange(P, ord, mapName, T, v, mapVars) ==
  mapSet(v, mapEntries(P, mapVars, SelectSeq(ord, LAMBDA n : n \in DOMAIN mapVars), 1,
                       mapName, T, <<>>))

\* ord lists the names of the environment; the range over varsPrefixed(mapName)
\* visits its variables in the order they have in ord
parseAndSetMap(P, e, ord, mapName, T, v) ==
  mapRange(P, ord, mapName, T, v, varsPrefixed(e, mapName))

(* ------------------------------ variables ------------------------------ *)
\* A lookup that falls back to the name without its first character (the
\* prefix "P") when the name itself is missing
LookupEnv_fallback(e, name) ==
  IF name \in DOMAIN e THEN [s |-> e[name], ok |-> TRUE]
  ELSE IF name # <<>> /\ Tail(name) \in DOMAIN e THEN [s |-> e[Tail(name)], ok |-> TRUE]
  ELSE [s |-> <<>>, ok |-> FALSE]

\* os.Getenv in the place of os.LookupEnv: a missing variable reads as ""
LookupEnv_getenv(e, name) ==
  IF name \in DOMAIN e THEN [s |-> e[name], ok |-> TRUE] ELSE [s |-> <<>>, ok |-> TRUE]

\* os.LookupEnv
LookupEnv(e, name) ==
  IF name \in DOMAIN e THEN [s |-> e[name], ok |-> TRUE] ELSE [s |-> <<>>, ok |-> FALSE]

\* return fmt.Errorf("cannot parse %s: %w", rv.Type(), err)
mapParsed(T, m) ==
  [m EXCEPT !.err = IF m.err = NoErr THEN NoErr
                    ELSE Err("cannot parse %s: %w", <<T>>, m.err)]

\* return fmt.Errorf("cannot parse %q as %s: %w", s, rt, err)
valueParsed(T, s, r) ==
  [r EXCEPT !.err = IF r.err = NoErr THEN NoErr
                    ELSE Err("cannot parse %q as %s: %w", <<s, T>>, r.err)]

\* loadVar after os.LookupEnv gave l
lookedUp(P, T, v, l) ==
  IF ~l.ok THEN Bound(v, errMissing, "missing")
  ELSE valueParsed(T, l.s, parseAndSetValue(P, l.s, T, v))

\* loadVar once rv is the value of type T it binds (after follow, if it ran)
loadFollowed(P, e, ord, T, v, name) ==
  IF textUnmarshaler(T, TRUE) = "none" /\ Kind(T) = "map"
    THEN mapParsed(T, parseAndSetMap(P, e, ord, name, T, v))
  ELSE lookedUp(P, T, v, LookupEnv(e, name))

\* The field as follow and the binding left it: b.v is the end of the chain
followedBack(T, followed, b) ==
  [b EXCEPT !.v = IF followed THEN Rewrap(T, b.v) ELSE b.v]

loadVar(P, e, ord, T, v, name) ==
  followedBack(T, ~hasParser(P, T),
               loadFollowed(P, e, ord,
                            IF hasParser(P, T) THEN T ELSE FollowType(T),
                            IF hasParser(P, T) THEN v ELSE FollowVal(T, v), name))

(* -------------------------------- walk --------------------------------- *)
\* Every field taken for exported
isExported_any(f) == TRUE

\* isExported: the first rune of the field's name is upper case
isExported(f) == f.name[1] \in UpperChars

\* No field is left alone
Skipped_never(f) == FALSE

\* The field is left alone: no env tag, and not an anonymous struct
Skipped(f) == ~f.hasTag /\ ~(Kind(f.type) = "struct" /\ f.anonymous)

\* A separator between the prefix and the tag
QualifiedName_sep(prefix, f) == prefix \o <<"_">> \o (IF f.hasTag THEN f.tag ELSE <<>>)

\* name := prefix + tag (Tag.Lookup gives "" when there is no tag)
QualifiedName(prefix, f) == prefix \o (IF f.hasTag THEN f.tag ELSE <<>>)

\* isStruct && !hasParser && !isTU
Recursed(P, f) ==
  /\ Kind(f.type) = "struct"
  /\ ~hasParser(P, f.type)
  /\ textUnmarshaler(f.type, TRUE) = "none"

\* What a walk leaves: v, the value now at the place; errs, the errors collected;
\* log, the fields visited with the branch each took; panic, whether it panicked.
Walked(v, errs, log, panic) == [v |-> v, errs |-> errs, log |-> log, panic |-> panic]

\* Only the first error is kept
appendErrs_first(errs, more) == IF errs = <<>> THEN more ELSE errs

\* errs = append(errs, more...)
appendErrs(errs, more) == errs \o more

RECURSIVE loadStruct(_, _, _, _, _, _, _)
RECURSIVE loadFields(_, _, _, _, _, _, _)

\* errs = append(errs, fmt.Errorf("%q: %w", f.Name, errUnexportedDst))
unexportedField(acc, f) ==
  Walked(acc.v, appendErrs(acc.errs, <<Err("%q: %w", <<f.name>>, errUnexportedDst)>>),
         Append(acc.log, <<f.name, "unexported">>), FALSE)

\* errs = append(errs, l.loadStruct(fv, name)...)
structField(acc, i, name, s) ==
  Walked([acc.v EXCEPT ![i] = s.v], appendErrs(acc.errs, s.errs),
         acc.log \o <<<<name, "recurse">>>> \o s.log, s.panic)

\* errs = append(errs, fmt.Errorf("%q: %w", name, err)) when loadVar failed
varField(acc, i, name, r) ==
  Walked([acc.v EXCEPT ![i] = r.v],
         IF r.err # NoErr THEN appendErrs(acc.errs, <<Err("%q: %w", <<name>>, r.err)>>)
         ELSE acc.errs,
         Append(acc.log, <<name, r.via>>), r.panic)

\* One turn of the loop of loadStruct, for field i of the struct.  A field that
\* passed isExported can be set: the walk only descends through exported fields
\* of an addressable struct, so CanInterface and CanSet hold.
loadField(P, e, ord, i, f, name, acc) ==
  IF Skipped(f) THEN acc
  ELSE IF ~isExported(f) THEN unexportedField(acc, f)
  ELSE IF Recursed(P, f)
    THEN structField(acc, i, name, loadStruct(P, e, ord, f.type, acc.v[i], name, TRUE))
  ELSE varField(acc, i, name, loadVar(P, e, ord, f.type, acc.v[i], name))

\* The loop of loadStruct over the fields of the struct type T from field i on
loadFields(P, e, ord, T, prefix, i, acc) ==
  IF acc.panic \/ i > Len(Fields(T)) THEN acc
  ELSE loadFields(P, e, ord, T, prefix, i + 1,
                  loadField(P, e, ord, i, Fields(T)[i],
                            QualifiedName(prefix, Fields(T)[i]), acc))

\* The pointer dst once the struct it points to was walked
pointerTo(r) == [r EXCEPT !.v = <<r.v>>]

\* The value of type T once the struct at the end of its chain was walked
followedStruct(T, r) == [r EXCEPT !.v = Rewrap(T, r.v)]

\* addr: rv.CanAddr().  reflect.ValueOf(dst) cannot be addressed or set, the
\* target of a pointer and a field of an addressable struct can: follow on a nil
\* pointer that cannot be set panics in rv.Set.
loadStruct(P, e, ord, T, v, prefix, addr) ==
  IF ~addr
    THEN IF Kind(T) # "ptr" THEN Walked(v, <<errInvalidDst>>, <<>>, FALSE)
         ELSE IF v = <<>> THEN Walked(v, <<>>, <<>>, TRUE)
         ELSE pointerTo(loadStruct(P, e, ord, Underlying(T)[2], v[1], prefix, TRUE))
    ELSE IF Kind(FollowType(T)) # "struct"
      THEN Walked(Rewrap(T, FollowVal(T, v)), <<errInvalidDst>>, <<>>, FALSE)
    ELSE followedStruct(T, loadFields(P, e, ord, FollowType(T), prefix, 1,
                                      Walked(FollowVal(T, v), <<>>, <<>>, FALSE)))

\* loader.Load: the walk from reflect.ValueOf(dst); the error returned is nil
\* when errs is empty and &loadError{errs} otherwise
LoadCall(P, e, ord, T, v, prefix) == loadStruct(P, e, ord, T, v, prefix, FALSE)

(* ------------------------------ the caller ------------------------------ *)
\* The struct type behind the argument the caller passes as dst
RootStruct(T) == IF Kind(FollowType(T)) = "struct" THEN FollowType(T)[2] ELSE "NotStruct"

\* The names the caller may set in the environment, for each destination:
\* the qualified names of its fields under the prefix "P", names without the
\* prefix or in another case, and names under the prefix of a map field.
Keys ==
  [ Config |-> {<<"P", "F">>, <<"P", "I", "F">>, <<"P", "N">>, <<"F">>, <<"P", "f">>},
    BadConfig |-> {<<"P", "N">>, <<"P", "L">>, <<"P", "I", "F">>, <<"P", "F", "F">>},
    MapConfig |-> {<<"P", "M", "1">>, <<"P", "M", "0", "1">>, <<"P", "M", "x">>, <<"P", "N">>},
    StrMapConfig |-> {<<"P", "S">>, <<"P", "S", "a">>, <<"P", "S", "b">>, <<"P">>},
    PtrConfig |-> {<<"P", "D", DigitChars[n + 1]>> : n \in 1..MaxPtrDepth},
    RegConfig |-> {<<"P", "U">>, <<"P", "I", "F">>, <<"P", "I">>, <<"P", "L">>},
    SpeedConfig |-> {<<"P", "S">>, <<"P", "M">>, <<"P", "M", "a">>},
    BindConfig |-> {<<"P", "S">>, <<"P", "L">>, <<"P", "Q">>, <<"P", "Q", "F">>},
    CapConfig |-> {<<"P", "M">>, <<"P", "M", "a">>, <<"P", "L">>, <<"P", "R">>,
                   <<"P", "R", "F">>},
    BulkConfig |-> {<<"P", "L">>, <<"P", "M", "a">>, <<"P", "M", "b">>},
    HiddenConfig |-> {<<"P", "N">>, <<"P", "F", "F">>, <<"P", "H">>, <<"P", "L">>},
    NotStruct |-> {<<"P">>, <<"P", "N">>} ]

\* The values the caller may give them
Vals ==
  [ Config |-> {<<"1">>, <<"x">>},
    BadConfig |-> {<<"1">>, <<"x">>, <<"0", ",", "1">>},
    MapConfig |-> {<<"1">>, <<"x">>},
    StrMapConfig |-> {<<"1">>, <<"0", "1">>, <<"x">>},
    PtrConfig |-> {<<"1">>, <<"x">>},
    RegConfig |-> {<<"1">>, <<"x">>, <<"0", ",", "1">>, <<":", "x">>},
    SpeedConfig |-> {<<"1">>, <<"2", "m", "p", "h">>},
    BindConfig |-> {<<"1">>, <<"2", "m", "p", "h">>, <<"0", ",", "1">>},
    CapConfig |-> {<<"{", QUOTE, "F", QUOTE, ":", QUOTE, "a", QUOTE, "}">>,
                   <<"[", QUOTE, "a", QUOTE, COMMA, QUOTE, "b", QUOTE, "]">>,
                   <<"x">>},
    BulkConfig |-> {<<"1">>, <<"x">>, <<"1", COMMA, "x">>, <<"1", BS, BS>>},
    HiddenConfig |-> {<<"1">>, <<"a", BS, BS>>},
    NotStruct |-> {<<"1">>} ]

\* The prefixes the caller may pass to Load
Prefixes ==
  [ Config |-> {<<>>, <<"P">>}, BadConfig |-> {<<"P">>}, MapConfig |-> {<<"P">>},
    StrMapConfig |-> {<<"P">>},
    PtrConfig |-> {<<"P">>}, RegConfig |-> {<<"P">>}, SpeedConfig |-> {<<"P">>},
    BindConfig |-> {<<"P">>}, CapConfig |-> {<<"P">>},
    BulkConfig |-> {<<"P">>},
    HiddenConfig |-> {<<"P">>}, NotStruct |-> {<<"P">>} ]

\* The types the caller may register a parser for
AddTargets ==
  [ Config |-> {Struct("Foo")}, BadConfig |-> {SliceOf(tInt)},
    MapConfig |-> {MapOf(tInt, tString)}, StrMapConfig |-> {Ptr(MapOf(tString, tInt))},
    PtrConfig |-> {Ptr(tInt)},
    RegConfig |-> {Struct("Foo"), SliceOf(tInt)},
    SpeedConfig |-> {Named("speed"), MapOf(tString, tInt)},
    BindConfig |-> {Named("speed"), SliceOf(tInt), Struct("Foo")},
    CapConfig |-> {Named("customList")},
    BulkConfig |-> {SliceOf(tInt)},
    HiddenConfig |-> {Struct("Foo")}, NotStruct |-> {Ptr(tInt)} ]

RECURSIVE ChainValues(_)
\* The values a chain of n pointers to int may hold before Load
ChainValues(n) ==
  IF n = 0 THEN {0, 7} ELSE {<<>>} \cup {<<c>> : c \in ChainValues(n - 1)}

RECURSIVE ChainInits(_)
\* The values of the first d fields of PtrConfig before Load
ChainInits(d) ==
  IF d = 0 THEN {<<>>}
  ELSE {Append(v, c) : v \in ChainInits(d - 1), c \in ChainValues(d)}

\* The values the destination struct may hold before the first Load: the zero
\* value, any value in the fields without a tag, any chain in the pointer fields
StructInits(n) ==
  CASE n = "Config" ->
         {ZeroValue(Struct(n)), [ZeroValue(Struct(n)) EXCEPT ![4] = <<"x">>, ![5] = 5]}
    [] n = "PtrConfig" -> ChainInits(MaxPtrDepth)
    [] OTHER -> {ZeroValue(Struct(n))}

\* All orders in which a range over a Go map may visit the names in S
Orders(S) ==
  {o \in [1..Cardinality(S) -> S] : \A i, j \in 1..Cardinality(S) : i # j => o[i] # o[j]}

RECURSIVE HasMap(_)
\* Some field reached from T is a map (only then the order of the range matters)
HasMap(T) ==
  CASE Kind(T) = "map" -> TRUE
    [] Kind(T) = "ptr" -> HasMap(Underlying(T)[2])
    [] Kind(T) = "struct" -> \E i \in 1..Len(Fields(T)) : HasMap(Fields(T)[i].type)
    [] OTHER -> FALSE

RangeOrders(T, e) ==
  IF HasMap(T) THEN Orders(DOMAIN e)
  ELSE {CHOOSE o \in Orders(DOMAIN e) : TRUE}

NoRet == [status |-> "none", errs |-> <<>>, log |-> <<>>, prefix |-> <<>>]

\* No call of parseAndSetSlice on its own is under way
NoOut == [stage |-> "none", raw |-> <<>>, fields |-> <<>>, v |-> <<>>,
          err |-> NoErr, panic |-> FALSE]

\* The caller declares a destination of one of the types in roots and passes
\* its address to Load
InitFor(roots) ==
  /\ env = <<>>
  /\ parsers = defaultParsers
  /\ root \in {Ptr(Struct(n)) : n \in roots}
  /\ dst \in {<<v>> : v \in StructInits(RootStruct(root))}
  /\ pc = "idle"
  /\ ret = NoRet
  /\ pre = dst
  /\ nLoads = 0
  /\ str = <<>>
  /\ out = NoOut
  /\ calls = <<>>

\* The arguments a caller may pass as dst besides the address of a struct: a
\* nil pointer to a struct, a struct by value, a number, the address of a
\* number, the address of a nil or non-nil pointer to a number
DstInits ==
  { <<Ptr(Struct("HiddenConfig")), <<ZeroValue(Struct("HiddenConfig"))>> >>,
    <<Ptr(Struct("HiddenConfig")), <<>> >>,
    <<Struct("HiddenConfig"), ZeroValue(Struct("HiddenConfig"))>>,
    <<tInt, 7>>,
    <<Ptr(tInt), <<7>> >>,
    <<PtrN(2, tInt), << <<>> >> >>,
    <<PtrN(2, tInt), << <<7>> >> >> }

InitDst ==
  /\ env = <<>>
  /\ parsers = defaultParsers
  /\ \E d \in DstInits : root = d[1] /\ dst = d[2]
  /\ pc = "idle"
  /\ ret = NoRet
  /\ pre = dst
  /\ nLoads = 0
  /\ str = <<>>
  /\ out = NoOut
  /\ calls = <<>>

Forget == pc' = "idle" /\ ret' = NoRet /\ pre' = dst

\* os.Setenv(k, v)
Setenv(k, v) ==
  /\ pc # "crashed"
  /\ k \in DOMAIN env \/ Cardinality(DOMAIN env) < MaxEnv
  /\ env' = (k :> v) @@ env
  /\ Forget
  /\ UNCHANGED <<parsers, root, dst, nLoads, str, out, calls>>

\* os.Unsetenv(k)
Unsetenv(k) ==
  /\ pc # "crashed"
  /\ k \in DOMAIN env
  /\ env' = [n \in DOMAIN env \ {k} |-> env[n]]
  /\ Forget
  /\ UNCHANGED <<parsers, root, dst, nLoads, str, out, calls>>

\* loader.AddParser(rt, f): l.parsers[rt] = f
AddParser(rt, f) ==
  /\ pc # "crashed"
  /\ rt \in DOMAIN parsers \/ Cardinality(DOMAIN parsers \ DOMAIN defaultParsers) < MaxAdded
  /\ parsers' = (rt :> f) @@ parsers
  /\ Forget
  /\ UNCHANGED <<env, root, dst, nLoads, str, out, calls>>

\* What the caller holds once Load gave r
Loaded(prefix, r) ==
  /\ dst' = r.v
  /\ ret' = [status |-> IF r.panic THEN "panic"
                        ELSE IF Len(r.errs) > 0 THEN "error" ELSE "nil",
             errs |-> r.errs, log |-> r.log, prefix |-> prefix]
  /\ pc' = IF r.panic THEN "crashed" ELSE "loaded"

\* err := l.Load(dst, prefix)
Load(prefix) ==
  /\ pc # "crashed"
  /\ nLoads < MaxLoads
  /\ \E ord \in RangeOrders(root, env) :
       Loaded(prefix, LoadCall(parsers, env, ord, root, dst, prefix))
  /\ pre' = dst
  /\ nLoads' = nLoads + 1
  /\ UNCHANGED <<env, parsers, root, str, out, calls>>

Next ==
  \/ \E k \in Keys[RootStruct(root)], v \in Vals[RootStruct(root)] : Setenv(k, v)
  \/ \E k \in Keys[RootStruct(root)] : Unsetenv(k)
  \/ \E rt \in AddTargets[RootStruct(root)] : AddParser(rt, "whole")
  \/ \E prefix \in Prefixes[RootStruct(root)] : Load(prefix)

SpecWalk == InitFor({"Config", "BadConfig", "MapConfig"}) /\ [][Next]_vars
SpecMap == InitFor({"MapConfig", "StrMapConfig"}) /\ [][Next]_vars
SpecPtr == InitFor({"PtrConfig"}) /\ [][Next]_vars
SpecReg == InitFor({"RegConfig", "SpeedConfig"}) /\ [][Next]_vars
SpecBind == InitFor({"BindConfig"}) /\ [][Next]_vars
SpecCap == InitFor({"CapConfig"}) /\ [][Next]_vars
SpecDst == InitDst /\ [][Next]_vars
SpecBulk == InitFor({"BulkConfig"}) /\ [][Next]_vars

(* ----------------- two Loads that share a loader ----------------------- *)
\* The names, values and parser targets of the callers of two Loads on one
\* loader, one into a config and one into a struct with a map
PairKeys == {<<"P", "I", "F">>, <<"P", "N">>, <<"P", "M", "1">>, <<"P", "M", "x">>}

PairVals == {<<"1">>, <<"x">>}

PairTargets == {Struct("Foo")}

PairPrefixes == {<<"P">>}

\* A call l.Load(&d, prefix) with d of the struct type T holding v0: pc is
\* where the call is, i the field the loop of loadStruct is at, acc the struct
\* and the errors so far, ord the order of its ranges over the environment;
\* overlapped records that the other call moved while this one was under way
NewCall(T) ==
  [pc |-> "idle", T |-> T, v0 |-> ZeroValue(T), prefix |-> <<>>, ord |-> <<>>, i |-> 0,
   acc |-> Walked(ZeroValue(T), <<>>, <<>>, FALSE), overlapped |-> FALSE]

PairCalls == <<NewCall(Struct("Config")), NewCall(Struct("MapConfig"))>>

InitPair ==
  /\ env = <<>>
  /\ parsers = defaultParsers
  /\ root = <<>>
  /\ dst = <<>>
  /\ pc = "idle"
  /\ ret = NoRet
  /\ pre = dst
  /\ nLoads = 0
  /\ str = <<>>
  /\ out = NoOut
  /\ calls = PairCalls

\* No call is under way
AllIdle == \A c \in DOMAIN calls : calls[c].pc = "idle"

\* The other call is in the loop of loadStruct
Overlaps(cs, c) == \E d \in DOMAIN cs : d # c /\ cs[d].pc = "walking" /\ cs[d].i > 1

\* loader.Load and the head of loadStruct: rv = follow(rv) on the address of
\* a struct, var errs []error
begun(cs, c, prefix, ord) ==
  [cs EXCEPT ![c] = [@ EXCEPT !.pc = "walking", !.prefix = prefix, !.ord = ord, !.i = 1,
                              !.acc = Walked(cs[c].v0, <<>>, <<>>, FALSE)]]

Begin(c, prefix) ==
  /\ calls[c].pc = "idle"
  /\ \E ord \in RangeOrders(calls[c].T, env) : calls' = begun(calls, c, prefix, ord)
  /\ UNCHANGED <<env, parsers, root, dst, pc, ret, pre, nLoads, str, out>>

\* The errors of a call are appended to a slice all calls share
stepped_sharedErrs(cs, c, acc) ==
  [d \in DOMAIN cs |->
     IF d = c THEN [cs[d] EXCEPT !.acc = acc, !.i = @ + 1,
                                 !.overlapped = @ \/ Overlaps(cs, c)]
     ELSE [cs[d] EXCEPT !.acc = [@ EXCEPT !.errs = acc.errs]]]

\* One turn of the loop of loadStruct in call c left acc: the struct and the
\* errs of this call, nothing of any other
stepped(cs, c, acc) ==
  [cs EXCEPT ![c] = [@ EXCEPT !.acc = acc, !.i = @ + 1,
                              !.overlapped = @ \/ Overlaps(cs, c)]]

Step(c) ==
  /\ calls[c].pc = "walking"
  /\ ~calls[c].acc.panic
  /\ calls[c].i <= Len(Fields(calls[c].T))
  /\ calls' = stepped(calls, c,
                      loadField(parsers, env, calls[c].ord, calls[c].i,
                                Fields(calls[c].T)[calls[c].i],
                                QualifiedName(calls[c].prefix, Fields(calls[c].T)[calls[c].i]),
                                calls[c].acc))
  /\ UNCHANGED <<env, parsers, root, dst, pc, ret, pre, nLoads, str, out>>

\* return errs; loader.Load returns nil or &loadError{errs}
Return(c) ==
  /\ calls[c].pc = "walking"
  /\ calls[c].acc.panic \/ calls[c].i > Len(Fields(calls[c].T))
  /\ calls' = [calls EXCEPT ![c].pc = IF calls[c].acc.panic THEN "crashed" ELSE "returned"]
  /\ UNCHANGED <<env, parsers, root, dst, pc, ret, pre, nLoads, str, out>>

\* Both callers have their results and declare new destinations
Again ==
  /\ \A c \in DOMAIN calls : calls[c].pc = "returned"
  /\ calls' = PairCalls
  /\ UNCHANGED <<env, parsers, root, dst, pc, ret, pre, nLoads, str, out>>

\* The environment and the parsers change only while no Load is under way
NextPair ==
  \/ AllIdle /\ \E k \in PairKeys, v \in PairVals : Setenv(k, v)
  \/ AllIdle /\ \E k \in PairKeys : Unsetenv(k)
  \/ AllIdle /\ \E rt \in PairTargets : AddParser(rt, "whole")
  \/ \E c \in DOMAIN calls : \E prefix \in PairPrefixes : Begin(c, prefix)
  \/ \E c \in DOMAIN calls : Step(c)
  \/ \E c \in DOMAIN calls : Return(c)
  \/ Again

SpecPair == InitPair /\ [][NextPair]_vars

(* ====================== the claims' vocabulary ========================== *)
\* The fields the claims speak of, found from the declarations alone: a field
\* counts when it carries a name annotation or is an anonymously composed
\* record; an accessible one that is a nested record with neither a Registry
\* entry nor the capability stands for its own fields, every other one is
\* listed, with the annotations on its path (tags), its place (path) and
\* whether it is accessible.
Annotated(f) == f.hasTag

AnonRecord(f) == f.anonymous /\ Kind(f.type) = "struct"

Accessible(f) == f.name[1] \in UpperChars

HasCapability(T) == Implements(T) \/ Implements(Ptr(T))

NestedRecord(P, f) ==
  Kind(f.type) = "struct" /\ f.type \notin DOMAIN P /\ ~HasCapability(f.type)

RECURSIVE ClaimFields(_, _, _, _, _)
ClaimFields(P, T, tags, path, i) ==
  IF i > Len(Fields(T)) THEN <<>>
  ELSE LET f == Fields(T)[i]
           here == tags \o (IF Annotated(f) THEN f.tag ELSE <<>>)
           this == [tags |-> here, path |-> Append(path, i), f |-> f,
                    accessible |-> Accessible(f)]
       IN (IF ~Annotated(f) /\ ~AnonRecord(f) THEN <<>>
           ELSE IF Accessible(f) /\ NestedRecord(P, f)
             THEN ClaimFields(P, f.type, here, Append(path, i), 1)
           ELSE <<this>>)
          \o ClaimFields(P, T, tags, path, i + 1)

\* The fields of the destination the caller passed, under the Registry P
DstFields(P) == ClaimFields(P, FollowType(root), <<>>, <<>>, 1)

RECURSIVE ValueAt(_, _)
\* The value at a place of a struct value
ValueAt(v, path) == IF path = <<>> THEN v ELSE ValueAt(v[Head(path)], Tail(path))

\* The struct behind the pointer the caller passed
Cfg(d) == d[1]

\* The type a field binds as: its declared type when that has a Registry entry,
\* the type at the end of its pointers otherwise
BoundType(P, T) == IF T \in DOMAIN P THEN T ELSE FollowType(T)

\* The field is filled by scanning the names under its prefix
Associative(P, T) == Kind(BoundType(P, T)) = "map" /\ ~HasCapability(BoundType(P, T))

\* The name and the cause of an entry of the aggregate failure
EntryName(e) == e[2][1]

EntryCause(e) == e[3]

Entry(name, cause) == Err("%q: %w", <<name>>, cause)

Returned == pc = "loaded"

\* The qualified name of a listed field in the Load that just returned
QName(cf) == ret.prefix \o cf.tags

(* --------------------- parseAndSetSlice on its own --------------------- *)
ListChars == {"a", COMMA, QUOTE, BS, " ", NUL}

RECURSIVE StringsOver(_, _)
\* The strings of at most n characters of A
StringsOver(A, n) ==
  IF n = 0 THEN {<<>>}
  ELSE StringsOver(A, n - 1)
         \cup {Append(t, c) : t \in {u \in StringsOver(A, n - 1) : Len(u) = n - 1}, c \in A}

\* The elements a caller renders: no backslash, no quote, no NUL, no white
\* space at either end
Elements ==
  {e \in StringsOver({"a", COMMA, " "}, MaxLen) :
     e = <<>> \/ (~IsSpace(e[1]) /\ ~IsSpace(e[Len(e)]))}

RECURSIVE ListsOver(_, _)
\* The lists of elements of E with at most n elements and characters in all
ListsOver(E, n) ==
  IF n = 0 THEN {<<>>}
  ELSE {<<>>} \cup UNION {{<<e>> \o l : l \in ListsOver(E, n - Len(e) - 1)} :
                            e \in {x \in E : Len(x) < n}}

Lists == ListsOver(Elements, MaxLen + 1)

RECURSIVE escapeCommas(_)
\* strings.ReplaceAll(e, ",", `\,`)
escapeCommas(e) ==
  IF e = <<>> THEN <<>>
  ELSE (IF Head(e) = COMMA THEN <<BS, COMMA>> ELSE <<Head(e)>>) \o escapeCommas(Tail(e))

\* An element as the caller writes it into a list string
RenderElem(e) == IF e = <<>> THEN <<QUOTE, QUOTE>> ELSE escapeCommas(e)

RECURSIVE Render(_)
\* strings.Join of the rendered elements with ","
Render(l) ==
  IF l = <<>> THEN <<>>
  ELSE IF Len(l) = 1 THEN RenderElem(l[1])
  ELSE RenderElem(Head(l)) \o <<COMMA>> \o Render(Tail(l))

Rendered == [l \in Lists |-> Render(l)]

\* The list strings parseAndSetSlice is called with
ListStrings == StringsOver(ListChars, MaxLen) \cup {Rendered[l] : l \in Lists}

\* The []string the caller's field holds before the call
SliceInits == {ZeroValue(SliceOf(tString)),
               [nil |-> FALSE, items |-> <<<<"z">>>>]}

\* l.parseAndSetSlice(s, rv) is about to run on a []string
InitSlice ==
  /\ env = <<>>
  /\ parsers = defaultParsers
  /\ root = SliceOf(tString)
  /\ dst = <<>>
  /\ pc = "idle"
  /\ ret = NoRet
  /\ pre = dst
  /\ nLoads = 0
  /\ str \in ListStrings
  /\ out \in {[NoOut EXCEPT !.stage = "start", !.v = v] : v \in SliceInits}
  /\ calls = <<>>

\* fields, err := tokenizeSliceString(s); if err != nil { return err }
tokenized(o, tok) ==
  [o EXCEPT !.stage = IF tok.err # NoErr THEN "returned" ELSE "tokenized",
            !.raw = tok.fields, !.fields = tok.fields, !.err = tok.err]

Tokenize ==
  /\ out.stage = "start"
  /\ out' = tokenized(out, tokenizeSliceString(str))
  /\ UNCHANGED <<env, parsers, root, dst, pc, ret, pre, nLoads, str, calls>>

\* for i, f := range fields { fields[i] = unescapeSliceField(f) }
unescaped(o, un) ==
  IF \E i \in 1..Len(un) : un[i].panic
    THEN [o EXCEPT !.stage = "panicked", !.panic = TRUE]
    ELSE [o EXCEPT !.stage = "unescaped", !.fields = [i \in 1..Len(un) |-> un[i].s]]

Unescape ==
  /\ out.stage = "tokenized"
  /\ out' = unescaped(out, unescapeFields(out.fields))
  /\ UNCHANGED <<env, parsers, root, dst, pc, ret, pre, nLoads, str, calls>>

\* The loop over the items, rv.Set(sl) and the return
itemsSet(o, r) == [o EXCEPT !.stage = "returned", !.v = r.v, !.err = r.err]

SetItems ==
  /\ out.stage = "unescaped"
  /\ out' = itemsSet(out, sliceSet(out.v, setItems(parsers, out.fields, root[2], 1, <<>>)))
  /\ UNCHANGED <<env, parsers, root, dst, pc, ret, pre, nLoads, str, calls>>

NextSlice == Tokenize \/ Unescape \/ SetItems

SpecSlice == InitSlice /\ [][NextSlice]_vars

(* =============================== claims ================================= *)
\* The Load that returned would have returned no error had the environment
\* also held some value under q
WellFormedBut(q) ==
  \E v \in Vals[RootStruct(root)] :
    \E ord \in RangeOrders(root, (q :> v) @@ env) :
      LET r == LoadCall(parsers, (q :> v) @@ env, ord, root, pre, ret.prefix)
      IN ~r.panic /\ r.errs = <<>>

\* The listed fields that bind from the one variable of their qualified name
SingleLookup(cf) == cf.accessible /\ ~Associative(parsers, cf.f.type)

\* C1 as stated: for every accessible field with a name annotation, when the
\* environment lacks its qualified name and no other name is at fault, Load
\* fails and the aggregate failure names that field, variable missing.
C1_Original ==
  Returned =>
    \A i \in 1..Len(DstFields(parsers)) :
      LET cf == DstFields(parsers)[i]
          q == QName(cf)
      IN (/\ Annotated(cf.f) /\ cf.accessible
          /\ q \notin DOMAIN env
          /\ \A j \in 1..Len(ret.errs) : EntryName(ret.errs[j]) = q)
         => /\ ret.status = "error"
            /\ \E j \in 1..Len(ret.errs) : ret.errs[j] = Entry(q, errMissing)

\* C1 as amended: for every accessible annotated field that is bound from the one
\* variable of its qualified name (not an associative container, which has no
\* variable of its own), when the environment lacks that name Load fails and the
\* aggregate failure has the entry (qualified name, variable missing); when
\* adding that one variable would make Load succeed, every entry is that one.
C1_MissingVarNamed ==
  Returned =>
    \A i \in 1..Len(DstFields(parsers)) :
      LET cf == DstFields(parsers)[i]
          q == QName(cf)
      IN (Annotated(cf.f) /\ SingleLookup(cf) /\ q \notin DOMAIN env)
         => /\ ret.status = "error"
            /\ \E j \in 1..Len(ret.errs) : ret.errs[j] = Entry(q, errMissing)
            /\ WellFormedBut(q)
                 => \A j \in 1..Len(ret.errs) : ret.errs[j] = Entry(q, errMissing)

\* A Load of the nested config returned with only the variable of Inner.Foo
\* missing, and the aggregate failure is that one entry
C1_Witness ==
  /\ Returned
  /\ RootStruct(root) = "Config"
  /\ ret.prefix = <<"P">>
  /\ <<"P", "I", "F">> \notin DOMAIN env
  /\ WellFormedBut(<<"P", "I", "F">>)
  /\ ret.errs = <<Entry(<<"P", "I", "F">>, errMissing)>>

\* What binding the one string s to a listed field gives
Coerced(cf, s) ==
  LET T == BoundType(parsers, cf.f.type)
      r == parseAndSetValue(parsers, s, T, ZeroValue(T))
  IN [ok |-> ~r.panic /\ r.err = NoErr,
      v |-> IF cf.f.type \in DOMAIN parsers THEN r.v ELSE Rewrap(cf.f.type, r.v)]

\* Every key and value under the prefix of an associative field coerces
EntriesCoerce(cf) ==
  LET T == Underlying(BoundType(parsers, cf.f.type))
      q == QName(cf)
  IN \A n \in DOMAIN env :
       StartsWith(n, q) =>
         LET k == parseAndSetValue(parsers, Drop(n, Len(q)), FollowType(T[2]),
                                   ZeroValue(FollowType(T[2])))
             w == parseAndSetValue(parsers, env[n], FollowType(T[3]),
                                   ZeroValue(FollowType(T[3])))
         IN ~k.panic /\ k.err = NoErr /\ ~w.panic /\ w.err = NoErr

\* Every listed field is accessible and the environment holds a well-formed
\* value for it
AllWellFormed ==
  \A i \in 1..Len(DstFields(parsers)) :
    LET cf == DstFields(parsers)[i]
    IN /\ cf.accessible
       /\ IF Associative(parsers, cf.f.type) THEN EntriesCoerce(cf)
          ELSE QName(cf) \in DOMAIN env /\ Coerced(cf, env[QName(cf)]).ok

\* C2: when the environment holds a well-formed value under every leaf's
\* qualified name, Load returns nil and each leaf holds the coercion of the value
\* under its qualified name: the prefix followed by the annotations on the path,
\* nothing in between, nothing for an anonymous record without annotation.
C2_LeavesHoldTheirVariable ==
  (Returned /\ AllWellFormed) =>
    /\ ret.status = "nil"
    /\ \A i \in 1..Len(DstFields(parsers)) :
         LET cf == DstFields(parsers)[i]
         IN ~Associative(parsers, cf.f.type)
              => ValueAt(Cfg(dst), cf.path) = Coerced(cf, env[QName(cf)]).v

\* The config of the tests loaded under "P": the leaf of the anonymous Foo holds
\* the value of PF, the leaf of Inner that of PIF, Int that of PN
C2_Witness ==
  /\ Returned /\ AllWellFormed
  /\ RootStruct(root) = "Config"
  /\ ret.prefix = <<"P">>
  /\ env = (<<"P", "F">> :> <<"1">>) @@ (<<"P", "I", "F">> :> <<"x">>)
             @@ (<<"P", "N">> :> <<"1">>)
  /\ Cfg(dst)[1] = <<<<"1">>>> /\ Cfg(dst)[2] = <<<<"x">>>> /\ Cfg(dst)[3] = 1

\* The entry a listed field alone adds to the aggregate failure, NoErr if none
FieldEntry(cf, ord) ==
  LET q == QName(cf)
      b == loadVar(parsers, env, ord, cf.f.type, ValueAt(Cfg(pre), cf.path), q)
  IN IF ~cf.accessible THEN Entry(cf.f.name, errUnexportedDst)
     ELSE IF b.err = NoErr THEN NoErr
     ELSE Entry(q, b.err)

FailedEntries(ord) ==
  LET all == [i \in 1..Len(DstFields(parsers)) |-> FieldEntry(DstFields(parsers)[i], ord)]
  IN SelectSeq(all, LAMBDA x : x # NoErr)

\* C3: the aggregate failure holds one entry for every inaccessible field and
\* every leaf or collection field whose binding fails, and no other, in
\* depth-first declaration order.
C3_EveryFailureInOrder ==
  Returned => \E ord \in RangeOrders(root, env) : ret.errs = FailedEntries(ord)

\* Four fields of BadConfig fail in one Load: a bad number, an unexported
\* field, a bad list and a missing nested variable, reported in that order
C3_Witness ==
  /\ Returned
  /\ RootStruct(root) = "BadConfig"
  /\ Len(ret.errs) = 4
  /\ EntryName(ret.errs[1]) = <<"P", "N">>
  /\ ret.errs[2] = Entry(<<"f", "o", "o">>, errUnexportedDst)
  /\ EntryName(ret.errs[3]) = <<"P", "L">>
  /\ ret.errs[4] = Entry(<<"P", "I", "F">>, errMissing)

\* The environments that differ from env in the name k alone
EnvsDifferingAt(k) ==
  ({[n \in DOMAIN env \ {k} |-> env[n]]}
     \cup {(k :> v) @@ env : v \in Vals[RootStruct(root)]}) \ {env}

\* The outcome of a walk for the listed field cf: its value and its entries
Outcome(cf, v, errs) ==
  <<ValueAt(Cfg(v), cf.path), SelectSeq(errs, LAMBDA x : EntryName(x) = QName(cf))>>

\* C4: the outcome of a leaf field (its value, its error) is the same under
\* every environment that agrees with this one on the field's qualified name;
\* stated for the environments that differ in one other name, from which any
\* other is reached one name at a time.
C4_OnlyTheExactName ==
  Returned =>
    \A k \in Keys[RootStruct(root)] :
      \A e \in EnvsDifferingAt(k) :
        \A ord \in RangeOrders(root, e) :
          LET r == LoadCall(parsers, e, ord, root, pre, ret.prefix)
          IN \A i \in 1..Len(DstFields(parsers)) :
               LET cf == DstFields(parsers)[i]
               IN (SingleLookup(cf) /\ QName(cf) # k)
                    => Outcome(cf, r.v, r.errs) = Outcome(cf, dst, ret.errs)

\* PF is missing while F (the name without the prefix) and Pf (the name in
\* lower case) are set: the leaf is reported missing and keeps its value
C4_Witness ==
  /\ Returned
  /\ RootStruct(root) = "Config"
  /\ ret.prefix = <<"P">>
  /\ <<"P", "F">> \notin DOMAIN env
  /\ <<"F">> \in DOMAIN env /\ <<"P", "f">> \in DOMAIN env
  /\ ret.errs[1] = Entry(<<"P", "F">>, errMissing)
  /\ Cfg(dst)[1] = Cfg(pre)[1]

RECURSIVE UntaggedPaths(_, _, _, _)
\* The places of the fields with no annotation that are not anonymous records
UntaggedPaths(P, T, path, i) ==
  IF i > Len(Fields(T)) THEN {}
  ELSE LET f == Fields(T)[i]
       IN (IF ~Annotated(f) /\ ~AnonRecord(f) THEN {Append(path, i)}
           ELSE IF Accessible(f) /\ NestedRecord(P, f)
             THEN UntaggedPaths(P, f.type, Append(path, i), 1)
           ELSE {})
          \cup UntaggedPaths(P, T, path, i + 1)

\* The names under which the listed fields are reported
ListedNames ==
  {IF DstFields(parsers)[i].accessible THEN QName(DstFields(parsers)[i])
   ELSE DstFields(parsers)[i].f.name : i \in 1..Len(DstFields(parsers))}

\* C5: a field with no annotation that is not an anonymous record holds after
\* Load the value it held before, and no entry of the aggregate failure is
\* about anything but the annotated or anonymous fields.
C5_UntaggedUntouched ==
  Returned =>
    /\ \A p \in UntaggedPaths(parsers, FollowType(root), <<>>, 1) :
         ValueAt(Cfg(dst), p) = ValueAt(Cfg(pre), p)
    /\ \A j \in 1..Len(ret.errs) : EntryName(ret.errs[j]) \in ListedNames

\* Config loaded with no error: the untagged Foobar still holds "x" and the
\* unexported untagged badConfig still holds 5, while the tagged fields changed
C5_Witness ==
  /\ Returned
  /\ RootStruct(root) = "Config"
  /\ ret.status = "nil"
  /\ Cfg(pre)[4] = <<"x">> /\ Cfg(dst)[4] = <<"x">>
  /\ Cfg(pre)[5] = 5 /\ Cfg(dst)[5] = 5
  /\ Cfg(dst)[3] # Cfg(pre)[3]

RECURSIVE ChainHolds(_, _, _)
\* Every level of the chain v of type T is non-nil and its end holds leaf
ChainHolds(T, v, leaf) ==
  IF Kind(T) = "ptr" THEN v # <<>> /\ ChainHolds(Underlying(T)[2], v[1], leaf)
  ELSE v = leaf

\* What the string s coerces to in the leaf type at the end of the chain T
LeafOf(T, s) ==
  parseAndSetValue(parsers, s, FollowType(T), ZeroValue(FollowType(T)))

\* The listed fields declared as one or more levels of indirection to a leaf,
\* bound through the chain (no Registry entry for the pointer type itself)
ChainFields ==
  {i \in 1..Len(DstFields(parsers)) :
     LET cf == DstFields(parsers)[i]
     IN /\ cf.accessible
        /\ Kind(cf.f.type) = "ptr"
        /\ cf.f.type \notin DOMAIN parsers
        /\ Kind(FollowType(cf.f.type)) \in {"bool", "int", "string"}}

\* C6: a field declared as N levels of indirection to a leaf, whose variable
\* is present with a well-formed value, has all N levels non-nil after Load and
\* the leaf at the end of the chain equals the coerced value.
C6_ChainMaterialized ==
  Returned =>
    \A i \in ChainFields :
      LET cf == DstFields(parsers)[i]
          q == QName(cf)
      IN (q \in DOMAIN env /\ LeafOf(cf.f.type, env[q]).err = NoErr)
           => ChainHolds(cf.f.type, ValueAt(Cfg(dst), cf.path), LeafOf(cf.f.type, env[q]).v)

\* Both chains were nil before Load, both variables hold "1": after Load the
\* one-level chain points to 1 and the two-level chain points to a pointer to 1
C6_Witness ==
  /\ Returned
  /\ ChainFields = {1, 2}
  /\ Cfg(pre)[1] = <<>> /\ Cfg(pre)[2] = <<>>
  /\ <<"P", "D", "1">> \in DOMAIN env /\ <<"P", "D", "2">> \in DOMAIN env
  /\ ret.status = "nil"
  /\ Cfg(dst)[1] = <<1>> /\ Cfg(dst)[2] = <<<<1>>>>

RECURSIVE NilLevelsKept(_, _, _)
\* Every level of the chain that was nil in a is nil in b
NilLevelsKept(T, a, b) ==
  IF Kind(T) # "ptr" THEN TRUE
  ELSE IF a = <<>> THEN b = <<>>
  ELSE b # <<>> /\ NilLevelsKept(Underlying(T)[2], a[1], b[1])

\* C7: a field declared as N levels of indirection to a leaf, whose variable
\* is absent, makes Load fail with 'variable missing' for its qualified name, and
\* every level of the field that was nil before Load is nil after it.
C7_Original ==
  Returned =>
    \A i \in 1..Len(DstFields(parsers)) :
      LET cf == DstFields(parsers)[i]
          q == QName(cf)
      IN (cf.accessible /\ Kind(cf.f.type) = "ptr" /\ q \notin DOMAIN env)
           => /\ \E j \in 1..Len(ret.errs) : ret.errs[j] = Entry(q, errMissing)
              /\ NilLevelsKept(cf.f.type, ValueAt(Cfg(pre), cf.path),
                               ValueAt(Cfg(dst), cf.path))

\* The names of the environment that start with the qualified name of cf
Scanned(cf) == {n \in DOMAIN env : StartsWith(n, QName(cf))}

\* The key and the value the variable n gives to the container of cf
KeyOf(cf, n) ==
  LET kt == FollowType(Underlying(BoundType(parsers, cf.f.type))[2])
  IN parseAndSetValue(parsers, Drop(n, Len(QName(cf))), kt, ZeroValue(kt)).v

ValOf(cf, n) ==
  LET vt == FollowType(Underlying(BoundType(parsers, cf.f.type))[3])
  IN parseAndSetValue(parsers, env[n], vt, ZeroValue(vt)).v

\* The container the field cf holds after Load, at the end of its indirections
ContainerOf(cf) == FollowVal(cf.f.type, ValueAt(Cfg(dst), cf.path))

\* The associative-container fields whose every scanned key and value coerces
CleanContainers ==
  {i \in 1..Len(DstFields(parsers)) :
     LET cf == DstFields(parsers)[i]
     IN cf.accessible /\ Associative(parsers, cf.f.type) /\ EntriesCoerce(cf)}

NoEntryFor(q) == \A j \in 1..Len(ret.errs) : EntryName(ret.errs[j]) # q

\* C8 as stated: every variable under the prefix gives one entry of its own, so
\* the container has as many entries as there are such variables.
C8_Original ==
  Returned =>
    \A i \in CleanContainers :
      LET cf == DstFields(parsers)[i]
          c == ContainerOf(cf)
      IN /\ NoEntryFor(QName(cf))
         /\ ~c.nil
         /\ Cardinality(DOMAIN c.m) = Cardinality(Scanned(cf))
         /\ \A n \in Scanned(cf) : KeyOf(cf, n) \in DOMAIN c.m /\ c.m[KeyOf(cf, n)] = ValOf(cf, n)
         /\ \A k \in DOMAIN c.m : \E n \in Scanned(cf) : KeyOf(cf, n) = k

\* C8: when every key and value under the prefix coerces, the container is
\* bound without error, its keys are exactly the coerced remainders of the
\* scanned names, each entry's value is the coerced value of a variable whose
\* remainder coerces to that key, and it has as many entries as scanned variables
\* when no two remainders coerce to the same key; no variable gives an empty
\* container.
C8_OneEntryPerCoercedKey ==
  Returned =>
    \A i \in CleanContainers :
      LET cf == DstFields(parsers)[i]
          c == ContainerOf(cf)
      IN /\ NoEntryFor(QName(cf))
         /\ ~c.nil
         /\ DOMAIN c.m = {KeyOf(cf, n) : n \in Scanned(cf)}
         /\ \A k \in DOMAIN c.m :
              \E n \in Scanned(cf) : KeyOf(cf, n) = k /\ c.m[k] = ValOf(cf, n)
         /\ (\A n1, n2 \in Scanned(cf) : KeyOf(cf, n1) = KeyOf(cf, n2) => n1 = n2)
              => Cardinality(DOMAIN c.m) = Cardinality(Scanned(cf))

\* PM1 and PM01 are both set, with different values: the remainders "1" and
\* "01" coerce to the same key and the map[int]string holds one entry
C8_Witness ==
  /\ Returned
  /\ RootStruct(root) = "MapConfig"
  /\ 1 \in CleanContainers
  /\ <<"P", "M", "1">> \in DOMAIN env /\ <<"P", "M", "0", "1">> \in DOMAIN env
  /\ env[<<"P", "M", "1">>] # env[<<"P", "M", "0", "1">>]
  /\ DOMAIN Cfg(dst)[1].m = {1}

\* The branches the walk took for the field with the qualified name q
StepsOf(q) == {ret.log[j][2] : j \in {k \in 1..Len(ret.log) : ret.log[k][1] = q}}

\* C9 as stated: a field whose exact declared type has a Registry entry is
\* never recursed into as a nested record, never split as an ordered list and
\* never prefix-scanned as an associative container.
C9_Original ==
  Returned =>
    \A i \in 1..Len(DstFields(parsers)) :
      LET cf == DstFields(parsers)[i]
      IN (cf.accessible /\ cf.f.type \in DOMAIN parsers)
           => StepsOf(QName(cf)) \cap {"recurse", "slice", "map"} = {}

\* C10 as stated: for a type with an entry in the parser map that also
\* implements the text-unmarshal capability, a present variable is bound by the
\* parser-map entry: the field holds what the entry makes of the string, or is
\* reported with the entry's error.
C10_Original ==
  Returned =>
    \A i \in 1..Len(DstFields(parsers)) :
      LET cf == DstFields(parsers)[i]
          T == cf.f.type
          q == QName(cf)
          r == ApplyParser(parsers[T], T, env[q])
      IN (cf.accessible /\ T \in DOMAIN parsers /\ HasCapability(T) /\ q \in DOMAIN env)
           => /\ StepsOf(q) = {"parser"}
              /\ IF r.err = NoErr
                   THEN ValueAt(Cfg(dst), cf.path) = r.v /\ NoEntryFor(q)
                   ELSE \E j \in 1..Len(ret.errs) : EntryName(ret.errs[j]) = q

\* The first step of value binding that applies to a value of type T
FirstStep(T) ==
  IF HasCapability(T) THEN "unmarshal"
  ELSE IF T \in DOMAIN parsers THEN "parser"
  ELSE IF Kind(T) = "slice" THEN "slice"
  ELSE "unsupported"

\* What performing that one step, and no other, makes of the value v and the
\* string s
StepResult(step, T, v, s) ==
  CASE step = "unmarshal" ->
         LET r == UnmarshalText(textUnmarshaler(T, TRUE), T, v, s)
         IN [v |-> r.v, err |-> r.err]
    [] step = "parser" ->
         LET r == ApplyParser(parsers[T], T, s)
         IN [v |-> IF r.err = NoErr THEN r.v ELSE v, err |-> r.err]
    [] step = "slice" ->
         LET r == parseAndSetSlice(parsers, s, T, v)
         IN [v |-> r.v, err |-> r.err]
    [] step = "unsupported" ->
         [v |-> v, err |-> Err("parsing of %v not supported", <<T>>, NoErr)]

C12_CapabilityBindsAtomically ==
  Returned =>
    \A i \in 1..Len(DstFields(parsers)) :
      LET cf == DstFields(parsers)[i]
          q == QName(cf)
          T == BoundType(parsers, cf.f.type)
          old == ValueAt(Cfg(pre), cf.path)
          r == UnmarshalText(textUnmarshaler(T, TRUE), T, old, env[q])
      IN (cf.accessible /\ HasCapability(T))
           => /\ \A j \in 1..Len(ret.log) :
                   StartsWith(ret.log[j][1], q) => ret.log[j][1] = q
              /\ IF q \notin DOMAIN env
                   THEN /\ StepsOf(q) = {"missing"}
                        /\ \E j \in 1..Len(ret.errs) : ret.errs[j] = Entry(q, errMissing)
                        /\ ValueAt(Cfg(dst), cf.path) = old
                   ELSE /\ StepsOf(q) = {"unmarshal"}
                        /\ ValueAt(Cfg(dst), cf.path) = r.v
                        /\ IF r.err = NoErr THEN NoEntryFor(q)
                           ELSE \E j \in 1..Len(ret.errs) : EntryName(ret.errs[j]) = q

\* The map and the record with UnmarshalText hold what their one variable
\* gives, the names under their prefixes set or not; the list, whose variable
\* is absent, is reported missing
C12_Witness ==
  /\ Returned
  /\ RootStruct(root) = "CapConfig"
  /\ env = (<<"P", "M">> :> <<"{", QUOTE, "F", QUOTE, ":", QUOTE, "a", QUOTE, "}">>)
             @@ (<<"P", "M", "a">> :> <<"x">>)
             @@ (<<"P", "R">> :> <<"{", QUOTE, "F", QUOTE, ":", QUOTE, "a", QUOTE, "}">>)
  /\ Cfg(dst)[1] = [nil |-> FALSE, m |-> (<<"F">> :> <<"a">>)]
  /\ Cfg(dst)[2] = [nil |-> TRUE, items |-> <<>>]
  /\ Cfg(dst)[3] = <<<<"a">>>>
  /\ ret.errs = <<Entry(<<"P", "L">>, errMissing)>>

(* ----------------------- claims on list strings ------------------------ *)
errEmptyField == Err("empty fields must be quoted", <<>>, NoErr)
errUnbalanced == Err("unbalanced quotes", <<>>, NoErr)
errTrailing == Err("trailing \\", <<>>, NoErr)
errNUL == Err("NUL byte in input", <<>>, NoErr)

RECURSIVE Escaped(_, _)
\* Character i of s is the second of a backslash-plus-character pair
Escaped(s, i) == i > 1 /\ s[i - 1] = BS /\ ~Escaped(s, i - 1)

RECURSIVE Quoted(_, _)
\* Character i of s lies after an odd number of unescaped quotes
Quoted(s, i) ==
  IF i = 1 THEN FALSE
  ELSE IF s[i - 1] = QUOTE /\ ~Escaped(s, i - 1) THEN ~Quoted(s, i - 1)
  ELSE Quoted(s, i - 1)

\* Character i of s is a comma that separates two fields
Separator(s, i) == s[i] = COMMA /\ ~Escaped(s, i) /\ ~Quoted(s, i)

\* The comma-delimited fields of s, in order, as <<first, last>> places (first
\* = last + 1 for a field of no character)
Delimited(s) ==
  LET seps == {i \in 1..Len(s) : Separator(s, i)}
      starts == {1} \cup {i + 1 : i \in seps}
  IN {<<a, (CHOOSE b \in seps \cup {Len(s) + 1} :
               b >= a /\ \A c \in seps : c >= a => b <= c) - 1>> : a \in starts}

\* A field that is empty once its surrounding white space is trimmed and that
\* holds no quote
EmptyUnquoted(s, fl) == \A i \in fl[1]..fl[2] : IsSpace(s[i])

\* The call of parseAndSetSlice on str is at that stage
Stage(stage) == out.stage = stage

\* The input has one defect only: fields that are empty and not quoted
OnlyEmptyFields(s) ==
  /\ s # <<>>
  /\ \A i \in 1..Len(s) : s[i] # NUL
  /\ ~Quoted(s, Len(s) + 1)
  /\ ~Escaped(s, Len(s) + 1)

EdgeSpace(f, i) ==
  LET plain(j) == IsSpace(f[j]) /\ ~Quoted(f, j) /\ ~Escaped(f, j)
  IN \/ \A j \in 1..i : plain(j)
     \/ \A j \in i..Len(f) : plain(j)

RECURSIVE UnescapedFrom(_, _)
\* The field unescaped as the rules say, from character i on: edge white
\* space dropped, the backslash of every pair dropped, every unescaped quote
\* dropped, every other character kept
UnescapedFrom(f, i) ==
  IF i > Len(f) THEN <<>>
  ELSE (IF EdgeSpace(f, i) THEN <<>>
        ELSE IF f[i] \in {BS, QUOTE} /\ ~Escaped(f, i) THEN <<>>
        ELSE <<f[i]>>) \o UnescapedFrom(f, i + 1)

HasSpace(f) == \E i \in 1..Len(f) : IsSpace(f[i])

\* C14 as stated: for every field of an accepted list string, unescaping
\* removes all leading and trailing white space that is outside quoted spans
\* and not escaped, and keeps all white space inside a quoted span.
C14_Original ==
  Stage("unescaped") =>
    \A i \in 1..Len(out.raw) :
      HasSpace(out.raw[i]) => out.fields[i] = UnescapedFrom(out.raw[i], 1)

\* C15 as stated: for every field of an accepted list string, unescaping
\* gives the field's characters with each backslash-plus-character pair
\* replaced by the character and each unescaped quote removed, wherever the
\* pair stands in the field.
C15_Original ==
  (Stage("unescaped") \/ Stage("panicked")) =>
    \A i \in 1..Len(out.raw) :
      ~HasSpace(out.raw[i])
        => /\ ~unescapeSliceField(out.raw[i]).panic
           /\ unescapeSliceField(out.raw[i]).s = UnescapedFrom(out.raw[i], 1)

\* The input ends inside a quoted span, ends after a lone backslash, or holds NUL
EndsInQuote(s) == Quoted(s, Len(s) + 1)

EndsInEscape(s) == Escaped(s, Len(s) + 1)

NULs(s) == {i \in 1..Len(s) : s[i] = NUL}

\* The separating commas of s that have no character at all before them in
\* their field
EmptySeparators(s) ==
  {i \in 1..Len(s) : Separator(s, i) /\ (i = 1 \/ Separator(s, i - 1))}

\* C16: tokenizing returns an error, and the list field keeps its value,
\* whenever the input ends inside a quoted span (unbalanced quotes), ends with
\* a pending escape (trailing backslash) or holds a NUL anywhere, escaped or
\* quoted or not (NUL in input).  The error is the one named for the defect; of
\* several defects the tokenizer reports the first it meets, an empty field or
\* a NUL as it scans, then unbalanced quotes, then the trailing backslash.
C16_DefectiveInputRejected ==
  [][(out.stage = "start" /\ (EndsInQuote(str) \/ EndsInEscape(str) \/ NULs(str) # {}))
       => /\ out'.stage = "returned"
          /\ out'.err # NoErr
          /\ out'.v = out.v
          /\ out'.err =
               IF \E i \in EmptySeparators(str) : \A n \in NULs(str) : i < n
                 THEN errEmptyField
               ELSE IF NULs(str) # {} THEN errNUL
               ELSE IF EndsInQuote(str) THEN errUnbalanced
               ELSE errTrailing]_vars

\* The string of a quote, a backslash and a NUL was refused for its NUL and the
\* list holds what it held
C16_Witness ==
  /\ Stage("returned")
  /\ str = <<QUOTE, BS, NUL>>
  /\ out.err = errNUL
  /\ out.v = [nil |-> FALSE, items |-> <<<<"z">>>>]

\* C19: a list of strings that hold no backslash, quote or NUL and no white
\* space at either end, rendered with every comma of an element written as
\* backslash-comma, every empty element as "" and commas between the elements,
\* is bound back to exactly that list; the empty string gives the empty list.
C19_RenderThenBind ==
  \A l \in Lists :
    Rendered[l] = str
      => /\ ~Stage("panicked")
         /\ Stage("returned") => out.err = NoErr /\ out.v = [nil |-> FALSE, items |-> l]

\* The list of "a," and "" was rendered as a\,,"" and bound back
C19_Witness ==
  /\ Stage("returned")
  /\ str = <<"a", BS, COMMA, COMMA, QUOTE, QUOTE>>
  /\ str = Rendered[<< <<"a", COMMA>>, <<>> >>]
  /\ out.v = [nil |-> FALSE, items |-> << <<"a", COMMA>>, <<>> >>]

(* ------------------------ claims on destinations ----------------------- *)
\* C17 as stated: a Load call always runs to completion and returns success
\* or the aggregate failure, for every destination (a nil pointer to a record
\* included) and every environment (every list string the tokenizer accepts
\* included); nothing panics.
C17_Original == pc # "crashed" /\ ret.status # "panic"

\* The caller passed the address of a struct
StructByAddress == Kind(root) = "ptr" /\ Kind(root[2]) = "struct"

\* The names of the variables of the fields of the record type of f
NestedNames(cf) ==
  IF Kind(cf.f.type) # "struct" THEN {}
  ELSE {QName(cf) \o Fields(cf.f.type)[k].tag : k \in 1..Len(Fields(cf.f.type))}

\* C18: a field with a name annotation, or an anonymously composed record,
\* that is not exported gives exactly one entry, cannot write unexported
\* field, naming the field; it keeps its value, no variable is looked up for it
\* or for the fields of its record, and every other listed field is still
\* processed.
C18_UnexportedReported ==
  (Returned /\ StructByAddress) =>
    \A i \in 1..Len(DstFields(parsers)) :
      LET cf == DstFields(parsers)[i]
      IN ~cf.accessible
           => /\ Cardinality({j \in 1..Len(ret.errs) : EntryName(ret.errs[j]) = cf.f.name}) = 1
              /\ \E j \in 1..Len(ret.errs) :
                   ret.errs[j] = Entry(cf.f.name, errUnexportedDst)
              /\ ValueAt(Cfg(dst), cf.path) = ValueAt(Cfg(pre), cf.path)
              /\ StepsOf(cf.f.name) = {"unexported"}
              /\ \A n \in NestedNames(cf) : StepsOf(n) = {}
              /\ \A k \in 1..Len(DstFields(parsers)) :
                   DstFields(parsers)[k].accessible
                     => StepsOf(QName(DstFields(parsers)[k])) # {}

\* With the variables of the fields of both unexported records set, Load
\* reports foo and hidden, leaves them as they were and binds the field before
\* them and the field after them
C18_Witness ==
  /\ Returned
  /\ root = Ptr(Struct("HiddenConfig"))
  /\ env = (<<"P", "N">> :> <<"1">>) @@ (<<"P", "F", "F">> :> <<"1">>)
             @@ (<<"P", "L">> :> <<"1">>)
  /\ ret.errs = <<Entry(<<"f", "o", "o">>, errUnexportedDst),
                  Entry(<<"h", "i", "d", "d", "e", "n">>, errUnexportedDst)>>
  /\ Cfg(dst) = <<1, <<<<>>>>, <<<<>>>>, [nil |-> FALSE, items |-> <<<<"1">>>>]>>

\* After resolving indirection the root is no record, or cannot be written: a
\* value that is no pointer, a nil pointer, a pointer chain that ends in no struct
InvalidRoot(T, v) ==
  \/ Kind(T) # "ptr"
  \/ v = <<>>
  \/ Kind(FollowType(T)) # "struct"

\* C20 as stated: when, after resolving indirection, the root destination is no
\* record or cannot be written, Load returns an aggregate failure of exactly
\* one error, invalid destination, looks no variable up and writes nothing.
C20_Original ==
  (pc \in {"loaded", "crashed"} /\ InvalidRoot(root, pre)) =>
    /\ pc = "loaded"
    /\ ret.errs = <<errInvalidDst>>
    /\ ret.log = <<>>
    /\ dst = pre

RECURSIVE JoinCommas(_)
\* strings.Join(fields, ",")
JoinCommas(fields) ==
  IF fields = <<>> THEN <<>>
  ELSE IF Len(fields) = 1 THEN fields[1]
  ELSE fields[1] \o <<COMMA>> \o JoinCommas(Tail(fields))

\* The comma-delimited fields of s that hold a character, as places, in order
FieldPlaces(s) ==
  LET fls == {fl \in Delimited(s) : fl[1] <= fl[2]}
  IN [k \in 1..Cardinality(fls) |->
        CHOOSE fl \in fls : Cardinality({g \in fls : g[1] <= fl[1]}) = k]

\* C21: the tokenizer ends a field at a comma exactly when the comma is outside
\* every quoted span and not escaped, where a quote toggles the span unless
\* escaped and a backslash escapes the next character only, unless itself
\* escaped; every other character stays in the current field; so the raw
\* fields of an accepted input, joined by commas, give the input back up to one
\* trailing comma.
C21_SplitsAtBareCommas ==
  Stage("tokenized") =>
    /\ Len(out.raw) = Len(FieldPlaces(str))
    /\ \A k \in 1..Len(out.raw) :
         out.raw[k] = SubSeq(str, FieldPlaces(str)[k][1], FieldPlaces(str)[k][2])
    /\ \/ JoinCommas(out.raw) = str
       \/ JoinCommas(out.raw) \o <<COMMA>> = str

\* The string ",", was accepted: its quoted comma stays in the field and the
\* comma after the closing quote ends it
C21_Witness ==
  /\ Stage("tokenized")
  /\ str = <<QUOTE, COMMA, QUOTE, COMMA>>
  /\ out.raw = << <<QUOTE, COMMA, QUOTE>> >>


(* ------------------- claims on lists and containers -------------------- *)
\* The listed fields that are declared as a list or an associative container
ContainerFields ==
  {i \in 1..Len(DstFields(parsers)) :
     LET cf == DstFields(parsers)[i]
     IN cf.accessible /\ Kind(cf.f.type) \in {"slice", "map"} /\ ~HasCapability(cf.f.type)}

\* The entries of the aggregate failure that name q
EntriesFor(q) == {j \in 1..Len(ret.errs) : EntryName(ret.errs[j]) = q}

\* Binding cf fails: the variable of a list is missing, its string does not
\* tokenize or an element does not coerce; a key or a value of an associative
\* container does not coerce
BindingFails(cf) ==
  IF Associative(parsers, cf.f.type) THEN ~EntriesCoerce(cf)
  ELSE QName(cf) \notin DOMAIN env \/ ~Coerced(cf, env[QName(cf)]).ok

\* The field holds all the environment gives it: every element of the list
\* string, an entry for every scanned variable
FullyBound(cf) ==
  IF Associative(parsers, cf.f.type)
    THEN LET c == ValueAt(Cfg(dst), cf.path)
         IN /\ ~c.nil
            /\ DOMAIN c.m = {KeyOf(cf, n) : n \in Scanned(cf)}
            /\ \A k \in DOMAIN c.m :
                 \E n \in Scanned(cf) : KeyOf(cf, n) = k /\ c.m[k] = ValOf(cf, n)
  ELSE ValueAt(Cfg(dst), cf.path) = Coerced(cf, env[QName(cf)]).v

\* The field is bound in full without an entry, or it has one entry and the
\* value it had before Load; it has the entry when binding fails
BindsOrKeeps(cf) ==
  /\ \/ EntriesFor(QName(cf)) = {} /\ ~BindingFails(cf) /\ FullyBound(cf)
     \/ /\ Cardinality(EntriesFor(QName(cf))) = 1
        /\ BindingFails(cf)
        /\ ValueAt(Cfg(dst), cf.path) = ValueAt(Cfg(pre), cf.path)

\* C22 as stated: a list or associative-container field either binds fully or
\* reports exactly one error; when tokenizing fails or an element, a key or a
\* value does not coerce, the field has one entry in the aggregate and the
\* container holds the value it had before Load.
C22_Original ==
  pc \in {"loaded", "crashed"} =>
    \A i \in ContainerFields : pc = "loaded" /\ BindsOrKeeps(DstFields(parsers)[i])

\* Whenever Load returns, each list and container field is bound in full or
\* has one entry and its earlier value
ReturnedContainersBindOrKeep ==
  Returned => \A i \in ContainerFields : BindsOrKeeps(DstFields(parsers)[i])

\* A second Load finds a list whose second element does not coerce and a
\* container with one bad value: both keep what the first Load bound
SecondLoadKeeps ==
  /\ Returned /\ nLoads = 2
  /\ env = (<<"P", "L">> :> <<"1", COMMA, "x">>) @@ (<<"P", "M", "a">> :> <<"1">>)
             @@ (<<"P", "M", "b">> :> <<"x">>)
  /\ Len(ret.errs) = 2
  /\ Cfg(dst) = <<[nil |-> FALSE, items |-> <<1>>], [nil |-> FALSE, m |-> (<<"a">> :> 1)]>>

(* ----------------------- claims on indirection ------------------------- *)
\* The annotated, accessible fields of the destination declared as a pointer,
\* at any depth, to a record that has neither a Registry entry nor the
\* capability
PointerRecords ==
  {i \in 1..Len(Fields(FollowType(root))) :
     LET f == Fields(FollowType(root))[i]
     IN /\ Annotated(f) /\ Accessible(f)
        /\ Kind(f.type) = "ptr" /\ Kind(FollowType(f.type)) = "struct"
        /\ f.type \notin DOMAIN parsers /\ FollowType(f.type) \notin DOMAIN parsers
        /\ ~HasCapability(f.type) /\ ~HasCapability(FollowType(f.type))}

\* C23 as stated: an annotated field declared as a pointer to a nested record
\* without Registry entry or capability is materialized and recursed into like
\* a directly nested record: no variable is looked up under its own qualified
\* name, and each child is bound from the variable named prefix + annotation +
\* the child's annotation.
C23_Original ==
  Returned =>
    \A i \in PointerRecords :
      LET f == Fields(FollowType(root))[i]
          q == ret.prefix \o f.tag
          rec == FollowType(f.type)
      IN /\ StepsOf(q) = {"recurse"}
         /\ NoEntryFor(q)
         /\ Cfg(dst)[i] # <<>>
         /\ \A k \in 1..Len(Fields(rec)) :
              LET c == Fields(rec)[k]
                  n == q \o c.tag
                  r == parseAndSetValue(parsers, env[n], FollowType(c.type),
                                        ZeroValue(FollowType(c.type)))
              IN (Annotated(c) /\ Accessible(c) /\ n \in DOMAIN env
                    /\ ~r.panic /\ r.err = NoErr)
                   => FollowVal(c.type, FollowVal(f.type, Cfg(dst)[i])[k]) = r.v

(* --------------------- claims on concurrent Loads ---------------------- *)
\* What call c returns and leaves in its destination when it runs alone
Alone(c) ==
  LoadCall(parsers, env, calls[c].ord, Ptr(calls[c].T), <<calls[c].v0>>, calls[c].prefix)

\* Every call that returned has the result and the destination of the call alone
ResultsAsAlone ==
  \A c \in DOMAIN calls :
    calls[c].pc \in {"returned", "crashed"} =>
      /\ <<calls[c].acc.v>> = Alone(c).v
      /\ calls[c].acc.errs = Alone(c).errs
      /\ calls[c].acc.panic = Alone(c).panic

\* C24: a Load never modifies the Registry or the environment, so the Registry
\* is what construction and AddParser made it after any sequence of Loads; two
\* Loads on distinct destinations that share a loader, interleaved in any order
\* with no AddParser in between, each return the result and leave the
\* destination they would when run alone.
C24_LoadsDoNotInterfere ==
  /\ []ResultsAsAlone
  /\ [][calls' # calls => (parsers' = parsers /\ env' = env)]_vars

\* Both Loads returned, each moved while the other was in its loop; the first
\* reports the missing PF and PIF, the second bound its map from PM1 and
\* reports PN
C24_Witness ==
  /\ \A c \in DOMAIN calls : calls[c].pc = "returned" /\ calls[c].overlapped
  /\ env = (<<"P", "N">> :> <<"x">>) @@ (<<"P", "M", "1">> :> <<"1">>)
  /\ Len(calls[1].acc.errs) = 3
  /\ Len(calls[2].acc.errs) = 1
  /\ calls[2].acc.v[1] = [nil |-> FALSE, m |-> (1 :> <<"1">>)]

====
